---- MODULE Spec2Model ----
(***************************************************************************)
(* State-machine model of spacetime_tiled (src/src/lib.rs): the streaming  *)
(* TMX loader load_tmx_map_from_str, the tree-based loader                 *)
(* load_tmx_map_internal, the count-derived id generators and the six      *)
(* tables they write.                                                      *)
(*                                                                         *)
(* Text (attribute values, element content) is a sequence of one-character *)
(* strings, so that splitting, trimming and number parsing are computed    *)
(* the way the code computes them.  A u32 that may exceed 2^31-1 (a raw    *)
(* tile cell) is a pair of 16-bit halves [hi, lo].                         *)
(***************************************************************************)
EXTENDS Integers, Sequences, FiniteSets, TLC

\* ------------------------------------------------------------------------
\* Bounds of the model
\* ------------------------------------------------------------------------
\* events the tokenizer delivers, over all load calls
MaxEvents == 5
\* the same, for the documents of the tile-grid decoder's specification
MaxDecodeEvents == 5
\* the same, for the documents of the attribute reader's specification
MaxAttrEvents == 3
\* events read by the two interleaved loads of SpecRace, in total
MaxRaceEvents == 5
\* events read by the loads of SpecShape, in total
MaxShapeEvents == 3

MaxMapEvents == 4

MaxPropsEvents == 5

MaxDeleteEvents == 8

MaxLeftoverEvents == 5
\* connected events of the example client written and not yet read
MaxPending == 2
\* runs of check_subscription_ready counted since the last handled connected event
MaxRuns == 11
\* load calls made on one store
MaxLoads == 2
\* nesting depth of open elements
MaxDepth == 3

VARIABLES
    \* the six tables of ctx.db, each the sequence of its rows in insertion order
    tiled_map, tiled_layer, tiled_tile, tiled_tileset, tiled_object, tiled_property,
    \* position of the caller: "idle", "loop" (inside the event loop of
    \* load_tmx_map_from_str), "tilesets" and "layers" (inside the two loops of
    \* load_tmx_map_internal), "returned", "panicked"
    pc,
    \* what the last call returned: [tag, id, msg]
    result,
    \* number of load calls started, and of input items consumed (events read
    \* from the tokenizer, tilesets and layers visited in a parsed map)
    loads, nread,
    \* locals of load_tmx_map_from_str
    map_id, map_name, width, height, tile_width, tile_height, orientation,
    background_color, current_layer_id, current_layer_type, in_data_element,
    tileset_counter,
    \* locals of load_tmx_map_internal: the two enumerate() indices, and the
    \* tileset, layer or property list of the parsed map visited last
    tileset_index, layer_index, node,
    \* the tokenizer: the elements open at its position in the document (each
    \* with the layer id the loader allocated at its start tag, NoLayer if
    \* none), whether the root element has started, and the event delivered last
    open, root_seen, event,
    \* the example client: the fields of its ConnectionState resource, the
    \* number of connected events written and not yet read by on_connected,
    \* and the systems of the Update schedule that ran in the current frame
    connected, data_loaded, objects_loaded, subscription_ready, frames_since_connected,
    pending, ran,
    \* history of the example client: the runs of check_subscription_ready with
    \* connected set since the last handled connected event, and how often the
    \* body of load_existing_data and of load_existing_objects has run
    ready_runs, data_bodies, object_bodies

db == <<tiled_map, tiled_layer, tiled_tile, tiled_tileset, tiled_object, tiled_property>>

locals == <<map_id, map_name, width, height, tile_width, tile_height, orientation,
            background_color, current_layer_id, current_layer_type, in_data_element,
            tileset_counter>>

mapmeta == <<width, height, tile_width, tile_height, orientation, background_color>>

layerctx == <<current_layer_id, current_layer_type>>

tree == <<tileset_index, layer_index, node>>

client == <<connected, data_loaded, objects_loaded, subscription_ready,
            frames_since_connected, pending, ran, ready_runs, data_bodies, object_bodies>>

tokenizer == <<open, root_seen, event>>

server == <<db, pc, result, loads, nread, locals, tree, tokenizer>>

vars == <<server, client>>

\* ------------------------------------------------------------------------
\* Characters and numbers
\* ------------------------------------------------------------------------
Digits == {"0", "1", "2", "3", "4", "5", "6", "7", "8", "9"}

DigitVal(c) ==
    CASE c = "0" -> 0 [] c = "1" -> 1 [] c = "2" -> 2 [] c = "3" -> 3
      [] c = "4" -> 4 [] c = "5" -> 5 [] c = "6" -> 6 [] c = "7" -> 7
      [] c = "8" -> 8 [] c = "9" -> 9

\* the decimal text of a one-digit number
Numeral(n) == <<CHOOSE c \in Digits : DigitVal(c) = n>>

\* char::is_whitespace, on the characters the model's texts use
IsWhitespace(c) == c \in {" ", "\n", "\t", "\r"}

\* 2^16: a u32 is hi * Half + lo
Half == 256 * 256

U32(h, l) == [hi |-> h, lo |-> l]

U32Zero == U32(0, 0)

\* str::trim
RECURSIVE TrimStart(_)
TrimStart(s) ==
    IF s # <<>> /\ IsWhitespace(Head(s)) THEN TrimStart(Tail(s)) ELSE s

RECURSIVE TrimEnd(_)
TrimEnd(s) ==
    IF s # <<>> /\ IsWhitespace(s[Len(s)])
    THEN TrimEnd(SubSeq(s, 1, Len(s) - 1))
    ELSE s

Trim(s) == TrimEnd(TrimStart(s))

\* str::split(','): the pieces between the separators, empty pieces kept
RECURSIVE SplitFrom(_, _, _)
SplitFrom(s, i, cur) ==
    IF i > Len(s) THEN <<cur>>
    ELSE IF s[i] = "," THEN <<cur>> \o SplitFrom(s, i + 1, <<>>)
    ELSE SplitFrom(s, i + 1, Append(cur, s[i]))

Split(s) == SplitFrom(s, 1, <<>>)

\* One step of <u32 as FromStr>: acc * 10 + d with the checked_mul /
\* checked_add overflow test, on 16-bit halves.
MulAdd10(acc, d) ==
    LET l == acc.lo * 10 + d
        h == acc.hi * 10 + (l \div Half)
    IN  [ok |-> h < Half, val |-> U32(h % Half, l % Half)]

RECURSIVE ParseDigits(_, _, _)
ParseDigits(s, i, acc) ==
    IF i > Len(s) THEN [ok |-> TRUE, val |-> acc]
    ELSE IF s[i] \notin Digits THEN [ok |-> FALSE, val |-> U32Zero]
    ELSE LET r == MulAdd10(acc, DigitVal(s[i]))
         IN  IF r.ok THEN ParseDigits(s, i + 1, r.val)
             ELSE [ok |-> FALSE, val |-> U32Zero]

\* str::parse::<u32>(): empty, a lone sign, a '-' sign, a non-digit or a value
\* above 2^32-1 is an Err; a leading '+' is accepted.
ParseU32(s) ==
    IF s = <<>> THEN [ok |-> FALSE, val |-> U32Zero]
    ELSE IF Head(s) \in {"+", "-"} /\ Len(s) = 1 THEN [ok |-> FALSE, val |-> U32Zero]
    ELSE IF Head(s) = "-" THEN [ok |-> FALSE, val |-> U32Zero]
    ELSE IF Head(s) = "+" THEN ParseDigits(s, 2, U32Zero)
    ELSE ParseDigits(s, 1, U32Zero)

\* bitwise AND of two 16-bit values
RECURSIVE And16(_, _, _)
And16(a, b, n) ==
    IF n = 0 THEN 0
    ELSE (IF a % 2 = 1 /\ b % 2 = 1 THEN 1 ELSE 0)
         + 2 * And16(a \div 2, b \div 2, n - 1)

\* u32 & u32
BitAnd(a, b) == U32(And16(a.hi, b.hi, 16), And16(a.lo, b.lo, 16))

ToInt(u) == u.hi * Half + u.lo

FromInt(n) == U32(n \div Half, n % Half)

\* `i as u32` clamping a negative value to 0
AsU32_Clamped(i) == IF i >= 0 THEN FromInt(i) ELSE U32Zero

\* `i as u32` for an i32: the two's complement wrap of a negative value
AsU32(i) ==
    IF i >= 0 THEN FromInt(i)
    ELSE U32((Half - 1) - ((0 - (i + 1)) \div Half), (Half - 1) - ((0 - (i + 1)) % Half))

\* str::parse::<i32>(): an optional sign, then digits, within i32's range
ParseI32(s) ==
    LET neg == s # <<>> /\ Head(s) = "-"
        mag == IF neg THEN (IF Len(s) = 1 THEN [ok |-> FALSE, val |-> U32Zero]
                            ELSE ParseDigits(s, 2, U32Zero))
               ELSE ParseU32(s)
        top == Half \div 2
    IN  IF ~mag.ok THEN [ok |-> FALSE, val |-> 0]
        ELSE IF mag.val.hi < top
             THEN [ok |-> TRUE, val |-> IF neg THEN 0 - ToInt(mag.val) ELSE ToInt(mag.val)]
        ELSE IF neg /\ mag.val = U32(top, 0)
             THEN [ok |-> TRUE, val |-> (0 - (top - 1) * Half - (Half - 1)) - 1]
        ELSE [ok |-> FALSE, val |-> 0]

\* An f32 is held in thousandths.  str::parse::<f32>() on the decimal forms
\* the model's documents use: an optional sign, digits, and an optional
\* fraction of at most three digits; anything else the documents hold ("",
\* letters) is an Err.
RECURSIVE DigitsValue(_, _, _)
DigitsValue(s, i, acc) ==
    IF i > Len(s) THEN acc ELSE DigitsValue(s, i + 1, acc * 10 + DigitVal(s[i]))

Pad3(f) == f \o SubSeq(<<"0", "0", "0">>, 1, 3 - Len(f))

DotAt(s) ==
    IF \E i \in 1..Len(s) : s[i] = "."
    THEN CHOOSE i \in 1..Len(s) : s[i] = "." /\ \A j \in 1..(i - 1) : s[j] # "."
    ELSE Len(s) + 1

ParseF32(s) ==
    LET signed == s # <<>> /\ Head(s) \in {"+", "-"}
        neg == s # <<>> /\ Head(s) = "-"
        body == IF signed THEN Tail(s) ELSE s
        d == DotAt(body)
        ip == SubSeq(body, 1, d - 1)
        fp == SubSeq(body, d + 1, Len(body))
        wellformed == /\ \A i \in 1..Len(ip) : ip[i] \in Digits
                      /\ \A i \in 1..Len(fp) : fp[i] \in Digits
                      /\ Len(ip) + Len(fp) > 0
                      /\ Len(fp) <= 3
                      /\ Len(ip) <= 5
        v == DigitsValue(ip, 1, 0) * 1000 + DigitsValue(Pad3(fp), 1, 0)
    IN  IF wellformed THEN [ok |-> TRUE, val |-> IF neg THEN 0 - v ELSE v]
        ELSE [ok |-> FALSE, val |-> 0]

\* ------------------------------------------------------------------------
\* The store (ctx.db) and the id generators
\* ------------------------------------------------------------------------
\* Option<T>
None == [some |-> FALSE, val |-> 0]

Some(v) == [some |-> TRUE, val |-> v]

NoneStr == [some |-> FALSE, val |-> <<>>]

\* Table::count
Count(table) == Len(table)

\* try_insert without the primary-key test
TryInsert_Unchecked(table, key, row) == [ok |-> TRUE, table |-> Append(table, row)]

\* Table::try_insert: rejected when the primary key is already present
TryInsert(table, key, row) ==
    IF \E i \in 1..Len(table) : table[i][key] = row[key]
    THEN [ok |-> FALSE, table |-> table]
    ELSE [ok |-> TRUE, table |-> Append(table, row)]

\* generate_map_id handing out the same id to every load
generate_map_id_Fixed == Count(<<>>)

generate_map_id == Count(tiled_map)

\* generate_layer_id handing out one more than the highest key in the table
generate_layer_id_AboveMax ==
    IF tiled_layer = <<>> THEN 0
    ELSE 1 + (CHOOSE m \in {tiled_layer[i].layer_id : i \in 1..Len(tiled_layer)} :
                 \A i \in 1..Len(tiled_layer) : tiled_layer[i].layer_id <= m)

\* generate_layer_id handing out the id of the newest row again
generate_layer_id_Stale == IF Count(tiled_layer) = 0 THEN 0 ELSE Count(tiled_layer) - 1

generate_layer_id == Count(tiled_layer)

generate_tileset_id == Count(tiled_tileset)

generate_tile_id(tiles) == Count(tiles)

generate_object_id(objects) == Count(objects)

generate_property_id(props) == Count(props)

\* ------------------------------------------------------------------------
\* Attribute reader: the `for attr in e.attributes()` loops
\* ------------------------------------------------------------------------
\* An attribute list is a sequence of <<key, value>>.  A value the code
\* parses is a sequence of characters; one it stores verbatim is a string.
HasAttr(attrs, key) == \E i \in 1..Len(attrs) : attrs[i][1] = key

\* the loop assigns on every match, so the last occurrence of a key wins
AttrValue(attrs, key) ==
    LET i == CHOOSE k \in 1..Len(attrs) :
                 attrs[k][1] = key /\ \A j \in (k + 1)..Len(attrs) : attrs[j][1] # key
    IN  attrs[i][2]

\* `x = value.parse().unwrap_or(0)` for a u32 local whose value so far is `init`
AttrU32(attrs, key, init) ==
    IF ~HasAttr(attrs, key) THEN init
    ELSE LET r == ParseU32(AttrValue(attrs, key)) IN IF r.ok THEN ToInt(r.val) ELSE 0

\* `x = value.parse().unwrap_or(0)` for an i32 local
AttrI32(attrs, key, init) ==
    IF ~HasAttr(attrs, key) THEN init
    ELSE LET r == ParseI32(AttrValue(attrs, key)) IN IF r.ok THEN r.val ELSE 0

\* `x = value.parse().unwrap_or(dflt)` for an f32 local
AttrF32(attrs, key, init, dflt) ==
    IF ~HasAttr(attrs, key) THEN init
    ELSE LET r == ParseF32(AttrValue(attrs, key)) IN IF r.ok THEN r.val ELSE dflt

\* `x = value.to_string()`
AttrString(attrs, key, init) ==
    IF HasAttr(attrs, key) THEN AttrValue(attrs, key) ELSE init

\* `visible = value == "1"`, the local starting as true
AttrVisible(attrs) ==
    IF HasAttr(attrs, "visible") THEN AttrValue(attrs, "visible") = <<"1">> ELSE TRUE

\* ------------------------------------------------------------------------
\* The tokenizer (quick_xml::Reader, trim_text(true)): events of a
\* well-formed document, one at a time
\* ------------------------------------------------------------------------
Tag(kind, name, attrs, attr_err) ==
    [kind |-> kind, name |-> name, attrs |-> attrs, attr_err |-> attr_err, text |-> <<>>]

TextEv(text) ==
    [kind |-> "Text", name |-> "", attrs |-> <<>>, attr_err |-> FALSE, text |-> text]

EndEv(name) ==
    [kind |-> "End", name |-> name, attrs |-> <<>>, attr_err |-> FALSE, text |-> <<>>]

EofEv == [kind |-> "Eof", name |-> "", attrs |-> <<>>, attr_err |-> FALSE, text |-> <<>>]

ErrEv == [kind |-> "Err", name |-> "", attrs |-> <<>>, attr_err |-> FALSE, text |-> <<>>]

NoEvent == [kind |-> "None", name |-> "", attrs |-> <<>>, attr_err |-> FALSE, text |-> <<>>]

\* The events the tokenizer can deliver next, for a document whose tags are
\* drawn from `tags` (each [name, attrs, attr_err, forms], forms saying
\* whether the tag occurs as a start tag, as a self-closing tag or as both)
\* and whose text runs are drawn from `texts`: one root element, end tags
\* matching start tags.
NextEvents(tags, texts) ==
    LET more == open # <<>> \/ ~root_seen
    IN  {Tag("Start", t.name, t.attrs, t.attr_err) :
            t \in {u \in tags : more /\ Len(open) < MaxDepth /\ "Start" \in u.forms}}
        \cup {Tag("Empty", t.name, t.attrs, t.attr_err) :
                t \in {u \in tags : more /\ "Empty" \in u.forms}}
        \cup {TextEv(x) : x \in {y \in texts : open # <<>>}}
        \cup (IF open # <<>> THEN {EndEv(open[Len(open)].name)} ELSE {EofEv})
        \cup {ErrEv}

NoLayer == None

\* what reading event e does to the tokenizer; lid is the layer id allocated
\* for e when e starts a layer
Consume(e, lid) ==
    /\ pc = "loop"
    /\ nread' = nread + 1
    /\ event' = e
    /\ root_seen' = (root_seen \/ e.kind \in {"Start", "Empty"})
    /\ open' = CASE e.kind = "Start" -> Append(open, [name |-> e.name, layer |-> lid])
                 [] e.kind = "End" -> SubSeq(open, 1, Len(open) - 1)
                 [] OTHER -> open
    /\ UNCHANGED <<loads, map_id, map_name, tree, client>>

Continue == pc' = "loop" /\ result' = result

ReturnErr(msg) == pc' = "returned" /\ result' = [tag |-> "Err", id |-> 0, msg |-> msg]

ReturnOk(id) == pc' = "returned" /\ result' = [tag |-> "Ok", id |-> id, msg |-> ""]

Panic(msg) == pc' = "panicked" /\ result' = [tag |-> "Panic", id |-> 0, msg |-> msg]

IsTag(e, name) == e.kind \in {"Start", "Empty"} /\ e.name = name

\* ------------------------------------------------------------------------
\* load_tmx_map_from_str: the streaming load
\* ------------------------------------------------------------------------
MapNames == {"level1"}

Orthogonal == "orthogonal"

\* the call, up to the first read_event_into
BeginLoad ==
    /\ pc \in {"idle", "returned"}
    /\ loads < MaxLoads
    /\ loads' = loads + 1
    /\ pc' = "loop"
    /\ result' = [tag |-> "None", id |-> 0, msg |-> ""]
    /\ \E n \in MapNames : map_name' = n
    /\ map_id' = generate_map_id
    /\ width' = 0 /\ height' = 0 /\ tile_width' = 0 /\ tile_height' = 0
    /\ orientation' = Orthogonal
    /\ background_color' = NoneStr
    /\ current_layer_id' = None
    /\ current_layer_type' = ""
    /\ in_data_element' = FALSE
    /\ tileset_counter' = 0
    /\ open' = <<>> /\ root_seen' = FALSE /\ event' = NoEvent
    /\ UNCHANGED <<db, nread, tree, client>>

AttrError == "Failed to parse attribute"

\* b"map"
MapTag(e) ==
    /\ IsTag(e, "map")
    /\ Consume(e, NoLayer)
    /\ IF e.attr_err
       THEN ReturnErr(AttrError) /\ UNCHANGED mapmeta
       ELSE /\ Continue
            /\ width' = AttrU32(e.attrs, "width", width)
            /\ height' = AttrU32(e.attrs, "height", height)
            /\ tile_width' = AttrU32(e.attrs, "tilewidth", tile_width)
            /\ tile_height' = AttrU32(e.attrs, "tileheight", tile_height)
            /\ orientation' = AttrString(e.attrs, "orientation", orientation)
            /\ background_color' =
                   IF HasAttr(e.attrs, "backgroundcolor")
                   THEN Some(AttrValue(e.attrs, "backgroundcolor"))
                   ELSE background_color
    /\ UNCHANGED <<db, layerctx, in_data_element, tileset_counter>>

\* TilesetRow taking tileset_index from the allocated id
TilesetRow_IndexFromId(e, id) ==
    [tileset_id |-> id,
     map_id |-> map_id,
     tileset_index |-> id,
     name |-> AttrString(e.attrs, "name", ""),
     tile_width |-> AttrU32(e.attrs, "tilewidth", 0),
     tile_height |-> AttrU32(e.attrs, "tileheight", 0),
     tile_count |-> AttrU32(e.attrs, "tilecount", 0),
     columns |-> AttrU32(e.attrs, "columns", 0),
     image_source |-> NoneStr,
     image_width |-> None,
     image_height |-> None]

TilesetRow(e, id) ==
    [tileset_id |-> id,
     map_id |-> map_id,
     tileset_index |-> tileset_counter,
     name |-> AttrString(e.attrs, "name", ""),
     tile_width |-> AttrU32(e.attrs, "tilewidth", 0),
     tile_height |-> AttrU32(e.attrs, "tileheight", 0),
     tile_count |-> AttrU32(e.attrs, "tilecount", 0),
     columns |-> AttrU32(e.attrs, "columns", 0),
     image_source |-> NoneStr,
     image_width |-> None,
     image_height |-> None]

\* b"tileset"
TilesetTag(e) ==
    /\ IsTag(e, "tileset")
    /\ Consume(e, NoLayer)
    /\ IF e.attr_err
       THEN ReturnErr(AttrError) /\ UNCHANGED <<tiled_tileset, tileset_counter>>
       ELSE LET ins == TryInsert(tiled_tileset, "tileset_id", TilesetRow(e, generate_tileset_id))
            IN  /\ tiled_tileset' = ins.table
                /\ IF ins.ok
                   THEN Continue /\ tileset_counter' = tileset_counter + 1
                   ELSE ReturnErr("Failed to insert tileset") /\ UNCHANGED tileset_counter
    /\ UNCHANGED <<tiled_map, tiled_layer, tiled_tile, tiled_object, tiled_property,
                   mapmeta, layerctx, in_data_element>>

\* LayerRow with z_order counted per map, as the tree load does
LayerRow_MapScoped(e, id, type) ==
    [layer_id |-> id,
     map_id |-> map_id,
     name |-> AttrString(e.attrs, "name", ""),
     layer_type |-> type,
     visible |-> AttrVisible(e.attrs),
     opacity |-> AttrF32(e.attrs, "opacity", 1000, 1000),
     offset_x |-> AttrI32(e.attrs, "offsetx", 0),
     offset_y |-> AttrI32(e.attrs, "offsety", 0),
     z_order |-> Len(SelectSeq(tiled_layer, LAMBDA r : r.map_id = map_id))]

LayerRow(e, id, type) ==
    [layer_id |-> id,
     map_id |-> map_id,
     name |-> AttrString(e.attrs, "name", ""),
     layer_type |-> type,
     visible |-> AttrVisible(e.attrs),
     opacity |-> AttrF32(e.attrs, "opacity", 1000, 1000),
     offset_x |-> AttrI32(e.attrs, "offsetx", 0),
     offset_y |-> AttrI32(e.attrs, "offsety", 0),
     z_order |-> id]

\* the common body of b"layer" (type "tile") and b"objectgroup" (type "object")
OpenLayer(e, type) ==
    LET id == generate_layer_id
        ins == TryInsert(tiled_layer, "layer_id", LayerRow(e, id, type))
    IN  IF e.attr_err
        THEN /\ Consume(e, NoLayer)
             /\ ReturnErr(AttrError)
             /\ UNCHANGED <<tiled_layer, layerctx>>
        ELSE /\ Consume(e, IF ins.ok THEN Some(id) ELSE NoLayer)
             /\ tiled_layer' = ins.table
             /\ IF ins.ok
                THEN /\ Continue
                     /\ current_layer_id' = Some(id)
                     /\ current_layer_type' = type
                ELSE ReturnErr("Failed to insert layer") /\ UNCHANGED layerctx

\* b"layer"
LayerTag(e) ==
    /\ IsTag(e, "layer")
    /\ OpenLayer(e, "tile")
    /\ UNCHANGED <<tiled_map, tiled_tile, tiled_tileset, tiled_object, tiled_property,
                   mapmeta, in_data_element, tileset_counter>>

\* b"objectgroup"
ObjectGroupTag(e) ==
    /\ IsTag(e, "objectgroup")
    /\ OpenLayer(e, "object")
    /\ UNCHANGED <<tiled_map, tiled_tile, tiled_tileset, tiled_object, tiled_property,
                   mapmeta, in_data_element, tileset_counter>>

\* `if width == 0.0 && height == 0.0 { "point" } else { "rectangle" }`
\* ShapeOf calling a point whatever has one zero side
ShapeOf_EitherZero(w, h) == IF w = 0 \/ h = 0 THEN "point" ELSE "rectangle"

ShapeOf(w, h) == IF w = 0 /\ h = 0 THEN "point" ELSE "rectangle"

ObjectRow(e, id, layer_id) ==
    LET w == AttrF32(e.attrs, "width", 0, 0)
        h == AttrF32(e.attrs, "height", 0, 0)
    IN  [object_id |-> id,
         layer_id |-> layer_id,
         name |-> AttrString(e.attrs, "name", ""),
         obj_type |-> AttrString(e.attrs, "type", ""),
         x |-> AttrF32(e.attrs, "x", 0, 0),
         y |-> AttrF32(e.attrs, "y", 0, 0),
         width |-> w,
         height |-> h,
         rotation |-> AttrF32(e.attrs, "rotation", 0, 0),
         visible |-> AttrVisible(e.attrs),
         shape |-> ShapeOf(w, h)]

\* ObjectAccepted without the test of the layer context
ObjectAccepted_Always == current_layer_id.some \/ ~current_layer_id.some

\* `if let Some(layer_id) = current_layer_id` of b"object"
ObjectAccepted == current_layer_id.some

\* b"object"
ObjectTag(e) ==
    /\ IsTag(e, "object")
    /\ Consume(e, NoLayer)
    /\ IF ~ObjectAccepted
       THEN Continue /\ UNCHANGED tiled_object
       ELSE IF e.attr_err
       THEN ReturnErr(AttrError) /\ UNCHANGED tiled_object
       ELSE LET ins == TryInsert(tiled_object, "object_id",
                                 ObjectRow(e, generate_object_id(tiled_object), current_layer_id.val))
            IN  /\ tiled_object' = ins.table
                /\ IF ins.ok THEN Continue ELSE ReturnErr("Failed to insert object")
    /\ UNCHANGED <<tiled_map, tiled_layer, tiled_tile, tiled_tileset, tiled_property,
                   mapmeta, layerctx, in_data_element, tileset_counter>>

\* b"data"
DataTag(e) ==
    /\ IsTag(e, "data")
    /\ Consume(e, NoLayer)
    /\ Continue
    /\ in_data_element' = TRUE
    /\ UNCHANGED <<db, mapmeta, layerctx, tileset_counter>>

KnownTags == {"map", "tileset", "layer", "objectgroup", "object", "data"}

\* OtherTag writing a Property row for a <property> tag
OtherTag_StoresProperty(e) ==
    /\ e.kind \in {"Start", "Empty"}
    /\ e.name \notin KnownTags
    /\ Consume(e, NoLayer)
    /\ Continue
    /\ tiled_property' =
           IF e.name = "property"
           THEN Append(tiled_property,
                       [property_id |-> generate_property_id(tiled_property),
                        parent_type |-> "layer",
                        parent_id |-> current_layer_id.val,
                        key |-> AttrString(e.attrs, "name", <<>>),
                        value |-> AttrString(e.attrs, "value", <<>>),
                        value_type |-> "string"])
           ELSE tiled_property
    /\ UNCHANGED <<tiled_map, tiled_layer, tiled_tile, tiled_tileset, tiled_object,
                   mapmeta, layerctx, in_data_element, tileset_counter>>

\* `_ => {}` of the start/empty match
OtherTag(e) ==
    /\ e.kind \in {"Start", "Empty"}
    /\ e.name \notin KnownTags
    /\ Consume(e, NoLayer)
    /\ Continue
    /\ UNCHANGED <<db, mapmeta, layerctx, in_data_element, tileset_counter>>

\* ------------------------------------------------------------------------
\* Tile-grid decoder: the Event::Text arm
\* ------------------------------------------------------------------------
\* 0x80000000, 0x40000000, 0x20000000, 0x1FFFFFFF
FLIP_H_MASK == U32(32768, 0)

FLIP_V_MASK == U32(16384, 0)

FLIP_D_MASK == U32(8192, 0)

GID_MASK == U32(8191, 65535)

FlipH(raw) == BitAnd(raw, FLIP_H_MASK) # U32Zero

\* mutant of FlipV: tests the diagonal bit
FlipV_WrongMask(raw) == BitAnd(raw, FLIP_D_MASK) # U32Zero

FlipV(raw) == BitAnd(raw, FLIP_V_MASK) # U32Zero

FlipD(raw) == BitAnd(raw, FLIP_D_MASK) # U32Zero

Gid(raw) == ToInt(BitAnd(raw, GID_MASK))

\* `if *gid_with_flags == 0 { continue; }`
SkipCell(raw) == raw = U32Zero

\* mutant of TileX: the column taken from the quotient
TileX_Quotient(idx, w) == idx \div w

TileX(idx, w) == idx % w

TileY(idx, w) == idx \div w

\* BytesText::unescape: "&amp;" stands for the predefined entity, "&bad;" for
\* a reference to an entity that is not defined
RECURSIVE UnescapeFrom(_, _)
UnescapeFrom(text, i) ==
    IF i > Len(text) THEN [ok |-> TRUE, text |-> <<>>]
    ELSE IF text[i] = "&bad;" THEN [ok |-> FALSE, text |-> <<>>]
    ELSE LET rest == UnescapeFrom(text, i + 1)
         IN  [ok |-> rest.ok,
              text |-> <<IF text[i] = "&amp;" THEN "&" ELSE text[i]>> \o rest.text]

Unescape(text) == UnescapeFrom(text, 1)

\* FilterParse keeping an empty cell where a piece does not parse
RECURSIVE FilterParse_KeepsSlot(_, _)
FilterParse_KeepsSlot(pieces, i) ==
    IF i > Len(pieces) THEN <<>>
    ELSE LET r == ParseU32(Trim(pieces[i]))
         IN  <<IF r.ok THEN r.val ELSE U32Zero>> \o FilterParse_KeepsSlot(pieces, i + 1)

\* `.filter_map(|s| s.trim().parse().ok())`
RECURSIVE FilterParse(_, _)
FilterParse(pieces, i) ==
    IF i > Len(pieces) THEN <<>>
    ELSE LET r == ParseU32(Trim(pieces[i]))
         IN  (IF r.ok THEN <<r.val>> ELSE <<>>) \o FilterParse(pieces, i + 1)

\* `text.split(',').filter_map(..).collect()`
ParseCells(text) == FilterParse(Split(text), 1)

\* `for (idx, gid_with_flags) in tiles.iter().enumerate()`, from index idx on:
\* the tile table afterwards, and how the loop ended ("ok", "panic" on the
\* remainder by a zero width, "err" on a rejected insert)
RECURSIVE InsertTiles(_, _, _, _, _)
InsertTiles(cells, idx, tiles, layer_id, w) ==
    IF idx >= Len(cells) THEN [outcome |-> "ok", tiles |-> tiles]
    ELSE LET raw == cells[idx + 1]
         IN  IF SkipCell(raw) THEN InsertTiles(cells, idx + 1, tiles, layer_id, w)
             ELSE IF w = 0 THEN [outcome |-> "panic", tiles |-> tiles]
             ELSE LET row == [tile_id |-> generate_tile_id(tiles),
                              layer_id |-> layer_id,
                              x |-> FromInt(TileX(idx, w)),
                              y |-> FromInt(TileY(idx, w)),
                              gid |-> Gid(raw),
                              flip_h |-> FlipH(raw),
                              flip_v |-> FlipV(raw),
                              flip_d |-> FlipD(raw)]
                      ins == TryInsert(tiles, "tile_id", row)
                  IN  IF ins.ok THEN InsertTiles(cells, idx + 1, ins.table, layer_id, w)
                      ELSE [outcome |-> "err", tiles |-> tiles]

\* `if in_data_element && current_layer_type == "tile"` and the `if let Some`
DecodesText == in_data_element /\ current_layer_type = "tile" /\ current_layer_id.some

\* Ok(Event::Text(e))
TextEvent(e) ==
    /\ e.kind = "Text"
    /\ Consume(e, NoLayer)
    /\ IF ~DecodesText
       THEN Continue /\ UNCHANGED tiled_tile
       ELSE LET text == Unescape(e.text)
                r == InsertTiles(ParseCells(text.text), 0, tiled_tile,
                                 current_layer_id.val, width)
            IN  IF ~text.ok
                THEN Panic("unwrap on an Err value") /\ UNCHANGED tiled_tile
                ELSE /\ tiled_tile' = r.tiles
                     /\ CASE r.outcome = "ok" -> Continue
                          [] r.outcome = "panic" ->
                                Panic("attempt to calculate the remainder with a divisor of zero")
                          [] OTHER -> ReturnErr("Failed to insert tile")
    /\ UNCHANGED <<tiled_map, tiled_layer, tiled_tileset, tiled_object, tiled_property,
                   mapmeta, layerctx, in_data_element, tileset_counter>>

\* EndLayer leaving the layer context as it is
EndLayer_KeepsContext(e) ==
    /\ e.kind = "End"
    /\ e.name \in {"layer", "objectgroup"}
    /\ Consume(e, NoLayer)
    /\ Continue
    /\ UNCHANGED <<db, mapmeta, layerctx, in_data_element, tileset_counter>>

\* Ok(Event::End(e)): b"layer" | b"objectgroup"
EndLayer(e) ==
    /\ e.kind = "End"
    /\ e.name \in {"layer", "objectgroup"}
    /\ Consume(e, NoLayer)
    /\ Continue
    /\ current_layer_id' = None
    /\ current_layer_type' = ""
    /\ UNCHANGED <<db, mapmeta, in_data_element, tileset_counter>>

\* Ok(Event::End(e)): b"data"
EndData(e) ==
    /\ e.kind = "End"
    /\ e.name = "data"
    /\ Consume(e, NoLayer)
    /\ Continue
    /\ in_data_element' = FALSE
    /\ UNCHANGED <<db, mapmeta, layerctx, tileset_counter>>

\* Ok(Event::End(e)): `_ => {}`
EndOther(e) ==
    /\ e.kind = "End"
    /\ e.name \notin {"layer", "objectgroup", "data"}
    /\ Consume(e, NoLayer)
    /\ Continue
    /\ UNCHANGED <<db, locals>>

\* MapRow with the tile dimensions exchanged
MapRow_TileDimsSwapped ==
    [map_id |-> map_id,
     name |-> map_name,
     width |-> width,
     height |-> height,
     tile_width |-> tile_height,
     tile_height |-> tile_width,
     orientation |-> orientation,
     background_color |-> background_color]

MapRow ==
    [map_id |-> map_id,
     name |-> map_name,
     width |-> width,
     height |-> height,
     tile_width |-> tile_width,
     tile_height |-> tile_height,
     orientation |-> orientation,
     background_color |-> background_color]

\* EofEvent replacing the Map rows of the same name by the new row
EofEvent_ReplacesSameName(e) ==
    /\ e.kind = "Eof"
    /\ Consume(e, NoLayer)
    /\ tiled_map' = Append(SelectSeq(tiled_map, LAMBDA r : r.name # map_name), MapRow)
    /\ ReturnOk(map_id)
    /\ UNCHANGED <<tiled_layer, tiled_tile, tiled_tileset, tiled_object, tiled_property,
                   mapmeta, layerctx, in_data_element, tileset_counter>>

\* Ok(Event::Eof) => break, and the map insert after the loop
EofEvent(e) ==
    /\ e.kind = "Eof"
    /\ Consume(e, NoLayer)
    /\ LET ins == TryInsert(tiled_map, "map_id", MapRow)
       IN  /\ tiled_map' = ins.table
           /\ IF ins.ok THEN ReturnOk(map_id) ELSE ReturnErr("Failed to insert map")
    /\ UNCHANGED <<tiled_layer, tiled_tile, tiled_tileset, tiled_object, tiled_property,
                   mapmeta, layerctx, in_data_element, tileset_counter>>

\* XmlError undoing the rows of the failed load (a rollback the code lacks)
XmlError_Rollback(e) ==
    /\ e.kind = "Err"
    /\ Consume(e, NoLayer)
    /\ ReturnErr("XML parse error")
    /\ tiled_layer' = SelectSeq(tiled_layer, LAMBDA r : r.map_id # map_id)
    /\ tiled_tileset' = SelectSeq(tiled_tileset, LAMBDA r : r.map_id # map_id)
    /\ UNCHANGED <<tiled_map, tiled_tile, tiled_object, tiled_property,
                   mapmeta, layerctx, in_data_element, tileset_counter>>

\* XmlError leaving the loop as Eof does (`break` in place of `return Err`)
XmlError_Break(e) ==
    /\ e.kind = "Err"
    /\ Consume(e, NoLayer)
    /\ LET ins == TryInsert(tiled_map, "map_id", MapRow)
       IN  /\ tiled_map' = ins.table
           /\ IF ins.ok THEN ReturnOk(map_id) ELSE ReturnErr("Failed to insert map")
    /\ UNCHANGED <<tiled_layer, tiled_tile, tiled_tileset, tiled_object, tiled_property,
                   mapmeta, layerctx, in_data_element, tileset_counter>>

\* Err(e) => return Err(format!("XML parse error: {e}"))
XmlError(e) ==
    /\ e.kind = "Err"
    /\ Consume(e, NoLayer)
    /\ ReturnErr("XML parse error")
    /\ UNCHANGED <<db, mapmeta, layerctx, in_data_element, tileset_counter>>

\* ------------------------------------------------------------------------
\* load_tmx_map / load_tmx_map_internal: the load from a parsed tiled::Map
\* ------------------------------------------------------------------------
NoNode == [kind |-> "None"]

\* i32 / u32 / u64 Display: the decimal digits, '-' before a negative value
RECURSIVE NatToString(_)
NatToString(n) ==
    LET d == <<"0", "1", "2", "3", "4", "5", "6", "7", "8", "9">>[(n % 10) + 1]
    IN  IF n < 10 THEN <<d>> ELSE NatToString(n \div 10) \o <<d>>

IntToString(n) == IF n < 0 THEN <<"-">> \o NatToString(0 - n) ELSE NatToString(n)

\* f32 Display of a value held in thousandths: no fraction for a whole
\* number, otherwise the fraction without trailing zeros
RECURSIVE StripZeros(_)
StripZeros(f) == IF f # <<>> /\ f[Len(f)] = "0" THEN StripZeros(SubSeq(f, 1, Len(f) - 1)) ELSE f

FloatToString(v) ==
    LET a == IF v < 0 THEN 0 - v ELSE v
        fr == StripZeros(SubSeq(<<"0", "0">> \o NatToString(a % 1000),
                                Len(NatToString(a % 1000)), Len(NatToString(a % 1000)) + 2))
    IN  (IF v < 0 THEN <<"-">> ELSE <<>>) \o NatToString(a \div 1000)
        \o (IF fr = <<>> THEN <<>> ELSE <<".">> \o fr)

\* {:02x} of a u8
Hex2(b) ==
    LET h == <<"0", "1", "2", "3", "4", "5", "6", "7", "8", "9", "a", "b", "c", "d", "e", "f">>
    IN  <<h[(b \div 16) + 1], h[(b % 16) + 1]>>

\* ColorToString without the alpha channel
ColorToString_NoAlpha(c) == <<"#">> \o Hex2(c.red) \o Hex2(c.green) \o Hex2(c.blue)

\* format!("#{:02x}{:02x}{:02x}{:02x}", c.red, c.green, c.blue, c.alpha)
ColorToString(c) == <<"#">> \o Hex2(c.red) \o Hex2(c.green) \o Hex2(c.blue) \o Hex2(c.alpha)

\* `f as i32` of an f32 held in thousandths: truncation toward zero
F32AsI32(v) == IF v < 0 THEN 0 - ((0 - v) \div 1000) ELSE v \div 1000

\* the (value_str, value_type) match of store_properties
PropertyEncode(v) ==
    CASE v.kind = "BoolValue" -> <<IF v.val THEN <<"t", "r", "u", "e">> ELSE <<"f", "a", "l", "s", "e">>, "bool">>
      [] v.kind = "FloatValue" -> <<FloatToString(v.val), "float">>
      [] v.kind = "IntValue" -> <<IntToString(v.val), "int">>
      [] v.kind = "ColorValue" -> <<ColorToString(v.val), "color">>
      [] v.kind = "StringValue" -> <<v.val, "string">>
      [] v.kind = "FileValue" -> <<v.val, "file">>
      [] v.kind = "ObjectValue" -> <<NatToString(v.val), "object">>
      [] v.kind = "ClassValue" -> <<<<>>, "class">>

\* store_properties, over the properties in the order properties.iter()
\* yields them (each [key, value]), from the i-th on
RECURSIVE store_properties(_, _, _, _, _)
store_properties(props, parent_type, parent_id, properties, i) ==
    IF i > Len(properties) THEN [ok |-> TRUE, msg |-> "", props |-> props]
    ELSE LET enc == PropertyEncode(properties[i].value)
             ins == TryInsert(props, "property_id",
                              [property_id |-> generate_property_id(props),
                               parent_type |-> parent_type,
                               parent_id |-> parent_id,
                               key |-> properties[i].key,
                               value |-> enc[1],
                               value_type |-> enc[2]])
         IN  IF ins.ok THEN store_properties(ins.table, parent_type, parent_id, properties, i + 1)
             ELSE [ok |-> FALSE, msg |-> "Failed to insert property", props |-> props]

TreeTileRow(tiles, layer_id, x, y, tile) ==
    [tile_id |-> generate_tile_id(tiles),
     layer_id |-> layer_id,
     x |-> x,
     y |-> y,
     gid |-> tile.id,
     flip_h |-> tile.flip_h,
     flip_v |-> tile.flip_v,
     flip_d |-> tile.flip_d]

\* the members of a set of numbers in increasing order
RECURSIVE Ascending(_)
Ascending(S) ==
    IF S = {} THEN <<>>
    ELSE LET m == CHOOSE x \in S : \A y \in S : x <= y
         IN  <<m>> \o Ascending(S \ {m})

\* the inserts of store_tile_layer for `cells`, the scanned positions that
\* hold a tile (get_tile returns Some there) as [x, y, tile] in scan order,
\* from the i-th on
RECURSIVE StoreCells(_, _, _, _)
StoreCells(tiles, layer_id, cells, i) ==
    IF i > Len(cells) THEN [ok |-> TRUE, msg |-> "", tiles |-> tiles]
    ELSE LET ins == TryInsert(tiles, "tile_id",
                              TreeTileRow(tiles, layer_id, cells[i].x, cells[i].y, cells[i].tile))
         IN  IF ins.ok THEN StoreCells(ins.table, layer_id, cells, i + 1)
             ELSE [ok |-> FALSE, msg |-> "Failed to insert tile", tiles |-> tiles]

\* `for y in 0..height { for x in 0..width {` of a finite layer whose
\* row-major cells are layer.tiles (each an Option): the cells holding a tile
FiniteScan(layer) ==
    LET at == Ascending({i \in 1..(layer.width * layer.height) : layer.tiles[i].some})
    IN  [k \in 1..Len(at) |->
            [x |-> FromInt((at[k] - 1) % layer.width),
             y |-> FromInt((at[k] - 1) \div layer.width),
             tile |-> layer.tiles[at[k]].val]]

\* ChunkData::WIDTH and ChunkData::HEIGHT: `for y in 0..16u32 { for x in 0..16u32 {`
ChunkSize == 16

\* WorldX taking coords as a position in tiles
WorldX_Unscaled(coords, x) == AsU32(coords[1] + x)

\* world position of local (x, y) in the chunk at coords
WorldX(coords, x) == AsU32(coords[1] * ChunkSize + x)

WorldY(coords, y) == AsU32(coords[2] * ChunkSize + y)

\* the scan of one chunk, whose chunk.tiles maps each local position <<x, y>>
\* that holds a tile to that tile: the cells holding a tile, row by row
ChunkScan(chunk) ==
    LET at == Ascending({p[2] * ChunkSize + p[1] :
                            p \in {q \in DOMAIN chunk.tiles :
                                      q[1] \in 0..(ChunkSize - 1) /\ q[2] \in 0..(ChunkSize - 1)}})
    IN  [k \in 1..Len(at) |->
            LET x == at[k] % ChunkSize
                y == at[k] \div ChunkSize
            IN  [x |-> WorldX(chunk.coords, x),
                 y |-> WorldY(chunk.coords, y),
                 tile |-> chunk.tiles[<<x, y>>]]]

\* the chunks in the order infinite_layer.chunks() yields them
RECURSIVE InfiniteScan(_, _)
InfiniteScan(chunks, i) ==
    IF i > Len(chunks) THEN <<>> ELSE ChunkScan(chunks[i]) \o InfiniteScan(chunks, i + 1)

store_tile_layer(tiles, layer_id, tile_layer) ==
    IF tile_layer.infinite
    THEN StoreCells(tiles, layer_id, InfiniteScan(tile_layer.chunks, 1), 1)
    ELSE StoreCells(tiles, layer_id, FiniteScan(tile_layer), 1)

\* ShapeFields storing no size for an ellipse
ShapeFields_EllipseUnsized(shape) ==
    CASE shape.tag = "Rect" -> <<shape.width, shape.height, "rectangle">>
      [] shape.tag = "Ellipse" -> <<0, 0, "ellipse">>
      [] shape.tag = "Point" -> <<0, 0, "point">>
      [] shape.tag = "Polygon" -> <<0, 0, "polygon">>
      [] shape.tag = "Polyline" -> <<0, 0, "polyline">>
      [] shape.tag = "Text" -> <<shape.width, shape.height, "text">>

\* the (width, height, shape_str) match of store_object_layer
ShapeFields(shape) ==
    CASE shape.tag = "Rect" -> <<shape.width, shape.height, "rectangle">>
      [] shape.tag = "Ellipse" -> <<shape.width, shape.height, "ellipse">>
      [] shape.tag = "Point" -> <<0, 0, "point">>
      [] shape.tag = "Polygon" -> <<0, 0, "polygon">>
      [] shape.tag = "Polyline" -> <<0, 0, "polyline">>
      [] shape.tag = "Text" -> <<shape.width, shape.height, "text">>

\* store_object_layer, from the i-th object on
RECURSIVE store_object_layer(_, _, _, _, _)
store_object_layer(objects, props, layer_id, object_layer, i) ==
    IF i > Len(object_layer) THEN [ok |-> TRUE, msg |-> "", objects |-> objects, props |-> props]
    ELSE LET object == object_layer[i]
             object_id == generate_object_id(objects)
             f == ShapeFields(object.shape)
             ins == TryInsert(objects, "object_id",
                              [object_id |-> object_id,
                               layer_id |-> layer_id,
                               name |-> object.name,
                               obj_type |-> object.user_type,
                               x |-> object.x,
                               y |-> object.y,
                               width |-> f[1],
                               height |-> f[2],
                               rotation |-> object.rotation,
                               visible |-> object.visible,
                               shape |-> f[3]])
             sp == store_properties(props, "object", object_id, object.properties, 1)
         IN  IF ~ins.ok
             THEN [ok |-> FALSE, msg |-> "Failed to insert object", objects |-> objects, props |-> props]
             ELSE IF ~sp.ok
             THEN [ok |-> FALSE, msg |-> sp.msg, objects |-> ins.table, props |-> sp.props]
             ELSE store_object_layer(ins.table, sp.props, layer_id, object_layer, i + 1)

\* format!("{:?}", map.orientation)
OrientationDebug(o) ==
    CASE o = "orthogonal" -> "Orthogonal"
      [] o = "isometric" -> "Isometric"
      [] o = "staggered" -> "Staggered"
      [] o = "hexagonal" -> "Hexagonal"

TreeMapRow(map, id, name) ==
    [map_id |-> id,
     name |-> name,
     width |-> map.width,
     height |-> map.height,
     tile_width |-> map.tile_width,
     tile_height |-> map.tile_height,
     orientation |-> OrientationDebug(map.orientation),
     background_color |-> IF map.background_color.some
                          THEN Some(ColorToString(map.background_color.val))
                          ELSE NoneStr]

\* the call, up to the tileset loop: the map id and the Map row
BeginTreeLoad(map) ==
    /\ pc \in {"idle", "returned"}
    /\ loads < MaxLoads
    /\ loads' = loads + 1
    /\ \E n \in MapNames : map_name' = n
    /\ map_id' = generate_map_id
    /\ LET ins == TryInsert(tiled_map, "map_id", TreeMapRow(map, map_id', map_name'))
       IN  /\ tiled_map' = ins.table
           /\ IF ins.ok
              THEN pc' = "tilesets" /\ result' = [tag |-> "None", id |-> 0, msg |-> ""]
              ELSE ReturnErr("Failed to insert map")
    /\ tileset_index' = 0 /\ layer_index' = 0
    /\ node' = [kind |-> "Map", map |-> map]
    /\ UNCHANGED <<tiled_layer, tiled_tile, tiled_tileset, tiled_object, tiled_property,
                   nread, mapmeta, layerctx, in_data_element, tileset_counter, tokenizer,
                   client>>

TreeTilesetRow(tileset, id) ==
    [tileset_id |-> id,
     map_id |-> map_id,
     tileset_index |-> tileset_index,
     name |-> tileset.name,
     tile_width |-> tileset.tile_width,
     tile_height |-> tileset.tile_height,
     tile_count |-> tileset.tilecount,
     columns |-> tileset.columns,
     image_source |-> IF tileset.image.some THEN Some(tileset.image.val.source) ELSE NoneStr,
     image_width |-> IF tileset.image.some THEN Some(tileset.image.val.width) ELSE None,
     image_height |-> IF tileset.image.some THEN Some(tileset.image.val.height) ELSE None]

\* one iteration of `for (tileset_index, tileset) in map.tilesets().iter().enumerate()`
StoreTileset(tileset) ==
    /\ pc = "tilesets"
    /\ nread' = nread + 1
    /\ node' = [kind |-> "Tileset", tileset |-> tileset]
    /\ LET ins == TryInsert(tiled_tileset, "tileset_id", TreeTilesetRow(tileset, generate_tileset_id))
       IN  /\ tiled_tileset' = ins.table
           /\ IF ins.ok
              THEN pc' = "tilesets" /\ result' = result /\ tileset_index' = tileset_index + 1
              ELSE ReturnErr("Failed to insert tileset") /\ UNCHANGED tileset_index
    /\ UNCHANGED <<tiled_map, tiled_layer, tiled_tile, tiled_object, tiled_property,
                   loads, locals, layer_index, tokenizer, client>>

TreeLayerType(layer) ==
    CASE layer.kind = "Tiles" -> "tile"
      [] layer.kind = "Objects" -> "object"
      [] layer.kind = "Image" -> "image"
      [] layer.kind = "Group" -> "group"

TreeLayerRow(layer, id) ==
    [layer_id |-> id,
     map_id |-> map_id,
     name |-> layer.name,
     layer_type |-> TreeLayerType(layer),
     visible |-> layer.visible,
     opacity |-> layer.opacity,
     offset_x |-> F32AsI32(layer.offset_x),
     offset_y |-> F32AsI32(layer.offset_y),
     z_order |-> layer_index]

\* one iteration of `for (layer_index, layer) in map.layers().enumerate()`:
\* the rows the tables hold afterwards, and whether it ran to its end
StoreLayerBody(layer) ==
    LET id == generate_layer_id
        li == TryInsert(tiled_layer, "layer_id", TreeLayerRow(layer, id))
        st == IF layer.kind = "Tiles"
              THEN store_tile_layer(tiled_tile, id, layer.tiles)
              ELSE [ok |-> TRUE, msg |-> "", tiles |-> tiled_tile]
        so == IF layer.kind = "Objects"
              THEN store_object_layer(tiled_object, tiled_property, id, layer.objects, 1)
              ELSE [ok |-> TRUE, msg |-> "", objects |-> tiled_object, props |-> tiled_property]
        sp == store_properties(so.props, "layer", id, layer.properties, 1)
        base == [ok |-> FALSE, msg |-> "Failed to insert layer", layers |-> tiled_layer,
                 tiles |-> tiled_tile, objects |-> tiled_object, props |-> tiled_property]
    IN  IF ~li.ok THEN base
        ELSE IF ~st.ok THEN [base EXCEPT !.msg = st.msg, !.layers = li.table, !.tiles = st.tiles]
        ELSE IF ~so.ok THEN [base EXCEPT !.msg = so.msg, !.layers = li.table, !.tiles = st.tiles,
                                         !.objects = so.objects, !.props = so.props]
        ELSE [ok |-> sp.ok, msg |-> sp.msg, layers |-> li.table, tiles |-> st.tiles,
              objects |-> so.objects, props |-> sp.props]

StoreLayer(layer) ==
    /\ pc \in {"tilesets", "layers"}
    /\ nread' = nread + 1
    /\ node' = [kind |-> "Layer", layer |-> layer]
    /\ LET r == StoreLayerBody(layer)
       IN  /\ tiled_layer' = r.layers
           /\ tiled_tile' = r.tiles
           /\ tiled_object' = r.objects
           /\ tiled_property' = r.props
           /\ IF r.ok
              THEN pc' = "layers" /\ result' = result /\ layer_index' = layer_index + 1
              ELSE ReturnErr(r.msg) /\ UNCHANGED layer_index
    /\ UNCHANGED <<tiled_map, tiled_tileset, loads, locals, tileset_index, tokenizer,
                   client>>

\* after the layer loop: the map's properties, and Ok(map_id)
FinishTreeLoad(properties) ==
    /\ pc \in {"tilesets", "layers"}
    /\ node' = [kind |-> "Properties", properties |-> properties]
    /\ LET sp == store_properties(tiled_property, "map", map_id, properties, 1)
       IN  /\ tiled_property' = sp.props
           /\ IF sp.ok THEN ReturnOk(map_id) ELSE ReturnErr(sp.msg)
    /\ UNCHANGED <<tiled_map, tiled_layer, tiled_tile, tiled_tileset, tiled_object,
                   loads, nread, locals, tileset_index, layer_index, tokenizer, client>>

\* ------------------------------------------------------------------------
\* Specification: load calls on one store, the tokenizer delivering the
\* events of any well-formed document over the core tags
\* ------------------------------------------------------------------------
\* ConnectionState::default(), no event written, no system run yet
ClientDefault ==
    /\ connected = FALSE
    /\ data_loaded = FALSE
    /\ objects_loaded = FALSE
    /\ subscription_ready = FALSE
    /\ frames_since_connected = 0
    /\ pending = 0
    /\ ran = {}
    /\ ready_runs = 0
    /\ data_bodies = 0
    /\ object_bodies = 0

Init ==
    /\ ClientDefault
    /\ tiled_map = <<>> /\ tiled_layer = <<>> /\ tiled_tile = <<>>
    /\ tiled_tileset = <<>> /\ tiled_object = <<>> /\ tiled_property = <<>>
    /\ pc = "idle"
    /\ result = [tag |-> "None", id |-> 0, msg |-> ""]
    /\ loads = 0 /\ nread = 0
    /\ map_id = 0 /\ map_name = ""
    /\ width = 0 /\ height = 0 /\ tile_width = 0 /\ tile_height = 0
    /\ orientation = Orthogonal
    /\ background_color = NoneStr
    /\ current_layer_id = None
    /\ current_layer_type = ""
    /\ in_data_element = FALSE
    /\ tileset_counter = 0
    /\ open = <<>> /\ root_seen = FALSE /\ event = NoEvent
    /\ tileset_index = 0 /\ layer_index = 0 /\ node = NoNode

BothForms == {"Start", "Empty"}

TagOf(name, attrs, forms) == [name |-> name, attrs |-> attrs, attr_err |-> FALSE, forms |-> forms]

PlainTag(name) == TagOf(name, <<>>, BothForms)

CoreTags ==
    {TagOf("map", <<>>, {"Start"}),
     TagOf("map", <<<<"width", <<"2">>>>>>, {"Start"}),
     TagOf("tileset", <<>>, {"Empty"}),
     PlainTag("layer"), PlainTag("objectgroup"),
     TagOf("object", <<>>, {"Empty"}),
     PlainTag("data"),
     TagOf("properties", <<>>, {"Start"})}

CoreTexts == {<<"0", ",", "3">>}

CoreEvents == IF nread < MaxEvents THEN NextEvents(CoreTags, CoreTexts) ELSE {}

\* the parsed maps load_tmx_map hands to load_tmx_map_internal
NoColor == [some |-> FALSE, val |-> [red |-> 0, green |-> 0, blue |-> 0, alpha |-> 0]]

TreeMaps ==
    {[width |-> 2, height |-> 1, tile_width |-> 16, tile_height |-> 16,
      orientation |-> "orthogonal", background_color |-> NoColor]}

NoImage == [some |-> FALSE, val |-> [source |-> <<>>, width |-> 0, height |-> 0]]

\* a tileset carrying a property of its own and one on its tile 0
TreeTilesets ==
    {[name |-> "terrain", tile_width |-> 16, tile_height |-> 16, tilecount |-> 4,
      columns |-> 2, image |-> NoImage,
      properties |-> <<[key |-> "biome", value |-> [kind |-> "StringValue", val |-> <<"i", "c", "e">>]]>>,
      tiles |-> <<[id |-> 0,
                   properties |-> <<[key |-> "solid",
                                     value |-> [kind |-> "BoolValue", val |-> TRUE]]>>]>>]}

PlainTile(id) == [id |-> id, flip_h |-> FALSE, flip_v |-> FALSE, flip_d |-> FALSE]

NoTiles == [infinite |-> FALSE, width |-> 0, height |-> 0, tiles |-> <<>>, chunks |-> <<>>]

TreeLayerOf(name, kind, tiles, objects, properties) ==
    [name |-> name, kind |-> kind, visible |-> TRUE, opacity |-> 1000,
     offset_x |-> 0, offset_y |-> 0, tiles |-> tiles, objects |-> objects,
     properties |-> properties]

PointObject ==
    [name |-> "spawn", user_type |-> "", x |-> 8000, y |-> 8000, rotation |-> 0,
     visible |-> TRUE, shape |-> [tag |-> "Point", width |-> 0, height |-> 0],
     properties |-> <<[key |-> "hp", value |-> [kind |-> "IntValue", val |-> 3]]>>]

TreeLayers ==
    {TreeLayerOf("ground", "Tiles",
                 [NoTiles EXCEPT !.width = 2, !.height = 1,
                                 !.tiles = <<None, Some(PlainTile(1))>>],
                 <<>>, <<>>),
     TreeLayerOf("far", "Tiles",
                 [NoTiles EXCEPT !.infinite = TRUE,
                                 !.chunks = <<[coords |-> <<1, 2>>,
                                               tiles |-> (<<3, 4>> :> PlainTile(2))]>>],
                 <<>>, <<>>),
     TreeLayerOf("things", "Objects", NoTiles, <<PointObject>>, <<>>),
     TreeLayerOf("sky", "Image", NoTiles, <<>>,
                 <<[key |-> "night", value |-> [kind |-> "BoolValue", val |-> FALSE]]>>)}

TreeProperties ==
    {<<>>, <<[key |-> "gravity", value |-> [kind |-> "FloatValue", val |-> 9800]]>>}

TreeBegin == \E m \in TreeMaps : BeginTreeLoad(m)

TreeTileset == nread < MaxEvents /\ \E t \in TreeTilesets : StoreTileset(t)

TreeLayer == nread < MaxEvents /\ \E l \in TreeLayers : StoreLayer(l)

TreeFinish == \E p \in TreeProperties : FinishTreeLoad(p)

ReadMap == \E e \in CoreEvents : MapTag(e)

ReadTileset == \E e \in CoreEvents : TilesetTag(e)

ReadLayer == \E e \in CoreEvents : LayerTag(e)

ReadObjectGroup == \E e \in CoreEvents : ObjectGroupTag(e)

ReadObject == \E e \in CoreEvents : ObjectTag(e)

ReadData == \E e \in CoreEvents : DataTag(e)

ReadOther == \E e \in CoreEvents : OtherTag(e)

ReadText == \E e \in CoreEvents : TextEvent(e)

ReadEndLayer == \E e \in CoreEvents : EndLayer(e)

ReadEndData == \E e \in CoreEvents : EndData(e)

ReadEndOther == \E e \in CoreEvents : EndOther(e)

ReadEof == \E e \in CoreEvents : EofEvent(e)

ReadError == \E e \in CoreEvents : XmlError(e)

Next ==
    \/ BeginLoad
    \/ ReadMap
    \/ ReadTileset
    \/ ReadLayer
    \/ ReadObjectGroup
    \/ ReadObject
    \/ ReadData
    \/ ReadOther
    \/ ReadText
    \/ ReadEndLayer
    \/ ReadEndData
    \/ ReadEndOther
    \/ ReadEof
    \/ ReadError
    \/ TreeBegin
    \/ TreeTileset
    \/ TreeLayer
    \/ TreeFinish

Spec == Init /\ [][Next]_vars

\* ------------------------------------------------------------------------
\* SpecDecode: the tile-grid decoder on documents map / layer / data whose
\* text runs are CSV texts over a wide choice of cells
\* ------------------------------------------------------------------------
DecodeTags ==
    {TagOf("map", <<>>, {"Start"}),
     TagOf("map", <<<<"width", <<"2">>>>, <<"height", <<"1">>>>>>, {"Start"}),
     TagOf("map", <<<<"width", <<"3">>>>>>, {"Start"}),
     TagOf("map", <<<<"width", <<"x">>>>>>, {"Start"}),
     PlainTag("layer"), PlainTag("data")}

\* 0x80000000, 0xA0000005, 0x40000005, 0x20000000, 0xFFFFFFFF, 2^32
Cell80000000 == <<"2", "1", "4", "7", "4", "8", "3", "6", "4", "8">>

CellA0000005 == <<"2", "6", "8", "4", "3", "5", "4", "5", "6", "5">>

Cell40000005 == <<"1", "0", "7", "3", "7", "4", "1", "8", "2", "9">>

Cell20000000 == <<"5", "3", "6", "8", "7", "0", "9", "1", "2">>

CellFFFFFFFF == <<"4", "2", "9", "4", "9", "6", "7", "2", "9", "5">>

CellTooBig == <<"4", "2", "9", "4", "9", "6", "7", "2", "9", "6">>

DecodeTexts ==
    {<<"0">>, <<"1">>, <<"7">>, <<"x">>, <<"-", "1">>, <<"+", "4">>, <<"&bad;">>,
     Cell80000000, CellA0000005, Cell40000005, Cell20000000, CellFFFFFFFF, CellTooBig,
     <<"1", ",", "2", ",", "0", ",", "3">>,
     <<"1", ",", "\n", "2", ",", " ", "3", ",">>,
     <<"0", ",", "0">>,
     <<"0", ",", "5">>,
     <<"x", ",", "6">>,
     <<",", "8">>,
     <<"1", ",", "2", ",", "3", ",", "4", ",", "5">>,
     <<"0", "0", "9", ",", "1", "&amp;">>,
     CellA0000005 \o <<",">> \o Cell80000000 \o <<",", "7">>}

DecodeEvents ==
    IF nread < MaxDecodeEvents THEN NextEvents(DecodeTags, DecodeTexts) ELSE {}

DecodeMap == \E e \in DecodeEvents : MapTag(e)

DecodeLayer == \E e \in DecodeEvents : LayerTag(e)

DecodeData == \E e \in DecodeEvents : DataTag(e)

DecodeText == \E e \in DecodeEvents : TextEvent(e)

DecodeEndLayer == \E e \in DecodeEvents : EndLayer(e)

DecodeEndData == \E e \in DecodeEvents : EndData(e)

DecodeEndOther == \E e \in DecodeEvents : EndOther(e)

DecodeEof == \E e \in DecodeEvents : EofEvent(e)

NextDecode ==
    \/ BeginLoad
    \/ DecodeMap
    \/ DecodeLayer
    \/ DecodeData
    \/ DecodeText
    \/ DecodeEndLayer
    \/ DecodeEndData
    \/ DecodeEndOther
    \/ DecodeEof

SpecDecode == Init /\ [][NextDecode]_vars

\* ------------------------------------------------------------------------
\* Properties of the tile-grid decoder (checked under SpecDecode)
\* ------------------------------------------------------------------------
Last(seq) == seq[Len(seq)]

\* the rows a step appends to the tile table
NewTiles == SubSeq(tiled_tile', Len(tiled_tile) + 1, Len(tiled_tile'))

\* the cells of the text run just read, and the 0-based positions of its
\* non-zero cells in increasing order
CellsRead(e) == ParseCells(Unescape(e.text).text)

NonZeroAt(cells) == {i \in 0..(Len(cells) - 1) : cells[i + 1] # U32Zero}

DecodedText(e) == e.kind = "Text" /\ Unescape(e.text).ok

\* C1 (as claimed): every Tile row in the sink has gid # 0, i.e. a cell whose
\* masked gid is zero never produces a row.
C1_NoTileWithZeroGid ==
    \A i \in 1..Len(tiled_tile) : tiled_tile[i].gid # 0

\* C2 (as claimed): a load of a well-formed document whose <map> leaves the
\* width at its default 0 never aborts; it is never stopped by the remainder
\* by that width.
C2_NoAbortOnDefaultedWidth ==
    ~(/\ pc = "panicked"
      /\ open # <<>> /\ open[1].name = "map"
      /\ width = 0
      /\ result.msg = "attempt to calculate the remainder with a divisor of zero")

\* C8: every Tile row a text run emits carries, for the non-zero raw cell v
\* it was made from, flip_h = bit 31 of v, flip_v = bit 30, flip_d = bit 29
\* and gid = v mod 2^29 (so gid < 2^29).
C8_RowMatchesRaw(row, v) ==
    /\ row.flip_h = (v.hi >= 32768)
    /\ row.flip_v = ((v.hi \div 16384) % 2 = 1)
    /\ row.flip_d = ((v.hi \div 8192) % 2 = 1)
    /\ row.gid = (v.hi % 8192) * 65536 + v.lo
    /\ row.gid < 8192 * 65536

C8_Step ==
    Len(tiled_tile') > Len(tiled_tile) =>
        LET cells == CellsRead(event')
            at == Ascending(NonZeroAt(cells))
        IN  /\ DecodedText(event')
            /\ Len(NewTiles) <= Len(at)
            /\ \A k \in 1..Len(NewTiles) : C8_RowMatchesRaw(NewTiles[k], cells[at[k] + 1])

C8_FlagsAndMaskedGid == [][C8_Step]_vars

\* C8 witness: the raw value 0xA0000005 has been decoded into a row with
\* flip_h, not flip_v, flip_d and gid 5, and 7 into a row without flags.
C8_Witness ==
    /\ event.kind = "Text"
    /\ event.text = CellA0000005 \o <<",">> \o Cell80000000 \o <<",", "7">>
    /\ Len(tiled_tile) >= 3
    /\ LET n == Len(tiled_tile)
       IN  /\ tiled_tile[n - 2].flip_h /\ ~tiled_tile[n - 2].flip_v
           /\ tiled_tile[n - 2].flip_d /\ tiled_tile[n - 2].gid = 5
           /\ ~tiled_tile[n].flip_h /\ ~tiled_tile[n].flip_v
           /\ ~tiled_tile[n].flip_d /\ tiled_tile[n].gid = 7

\* C9: the Tile row emitted for the cell at 0-based position i of a text run
\* (zero cells counted) has 0 <= x < width and y * width + x = i, width being
\* the width captured from the <map> tag.
C9_Step ==
    Len(tiled_tile') > Len(tiled_tile) =>
        LET at == Ascending(NonZeroAt(CellsRead(event')))
        IN  /\ DecodedText(event')
            /\ Len(NewTiles) <= Len(at)
            /\ \A k \in 1..Len(NewTiles) :
                   /\ NewTiles[k].x.hi = 0 /\ NewTiles[k].y.hi = 0
                   /\ NewTiles[k].x.lo >= 0 /\ NewTiles[k].x.lo < width
                   /\ NewTiles[k].y.lo * width + NewTiles[k].x.lo = at[k]

C9_RowMajorCoordinates == [][C9_Step]_vars

C9_Cell(row) == <<ToInt(row.x), ToInt(row.y), row.gid>>

\* C9 witness: "1,2,0,3" under width 2, height 1 has produced exactly
\* (0,0,gid 1), (1,0,gid 2), (1,1,gid 3): four cells where width x height is
\* two, the last row lying below the map (y >= height).
C9_Witness ==
    /\ event.kind = "Text"
    /\ event.text = <<"1", ",", "2", ",", "0", ",", "3">>
    /\ width = 2 /\ height = 1
    /\ Len(tiled_tile) = 3
    /\ C9_Cell(tiled_tile[1]) = <<0, 0, 1>>
    /\ C9_Cell(tiled_tile[2]) = <<1, 0, 2>>
    /\ C9_Cell(tiled_tile[3]) = <<1, 1, 3>>
    /\ ToInt(tiled_tile[3].y) >= height

\* C9 (as claimed, with its example): once "1,2,0,3" has been decoded under
\* width 2 into an empty tile table, the rows are exactly (0,0,gid 1),
\* (1,0,gid 2), (0,1,gid 3).
C9_ExampleAsClaimed ==
    (/\ event.kind = "Text"
     /\ event.text = <<"1", ",", "2", ",", "0", ",", "3">>
     /\ pc = "loop" /\ width = 2 /\ DecodesText
     /\ Len(tiled_tile) = 3)
    => /\ C9_Cell(tiled_tile[1]) = <<0, 0, 1>>
       /\ C9_Cell(tiled_tile[2]) = <<1, 0, 2>>
       /\ C9_Cell(tiled_tile[3]) = <<0, 1, 3>>

\* C24 (as claimed): a streaming load always ends by returning: Ok(map_id)
\* when Eof was read, or Err at the first error; it ends in no other way.
C24_LoadReturnsOkOrErr ==
    /\ pc \in {"idle", "loop", "returned"}
    /\ pc = "returned" =>
          \/ result.tag = "Ok" /\ event.kind = "Eof"
          \/ result.tag = "Err"

\* the tokens of the texts of DecodeTexts that are no u32: empty,
\* non-numeric, negative, 2^32
DiscardedTokens == {<<>>, <<"x">>, <<"-", "1">>, <<"1", "&">>, CellTooBig}

\* the comma-separated tokens of the unescaped text, trimmed
Tokens(text) ==
    LET pieces == Split(Unescape(text).text)
    IN  [i \in 1..Len(pieces) |-> Trim(pieces[i])]

\* the number of tokens before the i-th that are kept
KeptBefore(tokens, i) ==
    Cardinality({j \in 1..(i - 1) : tokens[j] \notin DiscardedTokens})

\* the grid positions of the tokens that are kept and not "0", in order:
\* each at the index it has among the kept tokens
KeptPositions(tokens, w) ==
    LET at == Ascending({i \in 1..Len(tokens) :
                            tokens[i] \notin DiscardedTokens /\ tokens[i] # <<"0">>})
    IN  [k \in 1..Len(at) |-> <<KeptBefore(tokens, at[k]) % w, KeptBefore(tokens, at[k]) \div w>>]

\* C36: a token of the tile text that is no u32 is dropped before the cells
\* are indexed: the Tile rows of a decoded text run lie, in order, at the
\* positions their tokens have among the parsed tokens, not among all tokens.
C36_Step ==
    (/\ pc = "loop" /\ pc' = "loop" /\ nread' = nread + 1
     /\ event'.kind = "Text" /\ DecodesText)
        => [k \in 1..Len(NewTiles) |-> <<ToInt(NewTiles[k].x), ToInt(NewTiles[k].y)>>]
               = KeptPositions(Tokens(event'.text), width)

C36_UnparsedTokensTakeNoPosition == [][C36_Step]_vars

\* with width 2, the text "x,6" gave one Tile row, for 6, at (0, 0)
C36_Witness ==
    /\ pc = "loop"
    /\ event = TextEv(<<"x", ",", "6">>)
    /\ width = 2
    /\ Len(tiled_tile) = 1
    /\ tiled_tile[1].gid = 6
    /\ tiled_tile[1].x = U32Zero
    /\ tiled_tile[1].y = U32Zero

ReturnedErr == pc = "returned" /\ result.tag = "Err"

\* C32 (as claimed): every decoding failure of a streaming load comes back
\* as an Err value and never as a panic: a tokenizer error, an attribute
\* syntax error in a tag whose attributes are read, and tile text of a <data>
\* element that cannot be unescaped.
C32_DecodingFailureReturnsErr ==
    /\ event.kind = "Err" => ReturnedErr
    /\ (event.attr_err /\ event.name \in {"map", "tileset", "layer", "objectgroup"})
          => ReturnedErr
    /\ (event.kind = "Text" /\ DecodesText /\ ~Unescape(event.text).ok) => ReturnedErr

\* C10 (as claimed): a text run decoded as tile data adds exactly one Tile
\* row per non-zero cell and none for a zero cell.
C10_Step ==
    (DecodesText /\ event'.kind = "Text" /\ nread' = nread + 1 /\ Unescape(event'.text).ok) =>
        Len(tiled_tile') - Len(tiled_tile) = Cardinality(NonZeroAt(CellsRead(event')))

C10_OneRowPerNonZeroCell == [][C10_Step]_vars

\* ------------------------------------------------------------------------
\* SpecAttr: the attribute reader on <layer>, <objectgroup> and <object>
\* tags over a wide choice of attribute values
\* ------------------------------------------------------------------------
VisibleValues == {<<"0">>, <<"1">>, <<"t", "r", "u", "e">>, <<>>, <<"y", "e", "s">>}

VisibleAttrs == {<<>>} \cup {<<<<"visible", v>>>> : v \in VisibleValues}

AttrTags ==
    {TagOf(n, a, BothForms) : n \in {"layer", "objectgroup", "object"}, a \in VisibleAttrs}

AttrEvents == IF nread < MaxAttrEvents THEN NextEvents(AttrTags, {}) ELSE {}

AttrLayer == \E e \in AttrEvents : LayerTag(e)

AttrObjectGroup == \E e \in AttrEvents : ObjectGroupTag(e)

AttrObject == \E e \in AttrEvents : ObjectTag(e)

AttrEndLayer == \E e \in AttrEvents : EndLayer(e)

AttrEof == \E e \in AttrEvents : EofEvent(e)

NextAttr ==
    \/ BeginLoad
    \/ AttrLayer
    \/ AttrObjectGroup
    \/ AttrObject
    \/ AttrEndLayer
    \/ AttrEof

SpecAttr == Init /\ [][NextAttr]_vars

\* C4 (as claimed): the visible flag stored for a <layer>, <objectgroup> or
\* <object> is false exactly when the attribute is present with the literal
\* value "0", and true when it is absent or has any other value.
C4_Claimed(attrs) == ~(HasAttr(attrs, "visible") /\ AttrValue(attrs, "visible") = <<"0">>)

C4_VisibleFalseIffLiteralZero ==
    /\ ((IsTag(event, "layer") \/ IsTag(event, "objectgroup")) /\ pc = "loop")
           => Last(tiled_layer).visible = C4_Claimed(event.attrs)
    /\ (IsTag(event, "object") /\ pc = "loop" /\ current_layer_id.some)
           => Last(tiled_object).visible = C4_Claimed(event.attrs)

\* ------------------------------------------------------------------------
\* Properties of the parse state machine (checked under Spec)
\* ------------------------------------------------------------------------
NewObjects == SubSeq(tiled_object', Len(tiled_object) + 1, Len(tiled_object'))

\* the ids of the <layer>/<objectgroup> elements open at the tokenizer's position
OpenLayerIds == {open[i].layer.val : i \in {j \in 1..Len(open) : open[j].layer.some}}

\* the tokenizer is inside a <data> element that lies inside a <layer> element
InsideLayerData(stack) ==
    \E i, j \in 1..Len(stack) : i < j /\ stack[i].name = "layer" /\ stack[j].name = "data"

\* the keys of the Map rows in the store
MapKeys == {tiled_map[i].map_id : i \in 1..Len(tiled_map)}

\* C3 (as claimed): at every point during and after a load, on the streaming
\* path and on the tree path alike, each Layer row and each Tileset row has
\* a map_id that is the key of a Map row already in the store.
C3_ChildRowsReferenceExistingMap ==
    /\ \A i \in 1..Len(tiled_layer) : tiled_layer[i].map_id \in MapKeys
    /\ \A i \in 1..Len(tiled_tileset) : tiled_tileset[i].map_id \in MapKeys

\* C13: when the tokenizer reports an error during a streaming load, the load
\* returns Err and the Map table is as it was when the load began (its row
\* count still equals the map_id taken at the start): no Map row exists for
\* that load.
C13_Step ==
    (pc = "loop" /\ event'.kind = "Err" /\ nread' = nread + 1)
        => /\ pc' = "returned"
           /\ result'.tag = "Err"
           /\ tiled_map' = tiled_map
           /\ Count(tiled_map') = map_id
           /\ map_id \notin {tiled_map'[i].map_id : i \in 1..Len(tiled_map')}

C13_XmlErrorLeavesNoMapRow == [][C13_Step]_vars

\* a load has failed on a tokenizer error after writing a Layer row
C13_Witness ==
    /\ pc = "returned"
    /\ event.kind = "Err"
    /\ result = [tag |-> "Err", id |-> 0, msg |-> "XML parse error"]
    /\ \E i \in 1..Len(tiled_layer) : tiled_layer[i].map_id = map_id
    /\ Count(tiled_map) = map_id

\* every row of `before` is still in `after`, at its place and unchanged
IsPrefix(before, after) ==
    Len(before) <= Len(after) /\ SubSeq(after, 1, Len(before)) = before

\* C14: a load that fails performs no rollback: the step on which a load
\* returns Err keeps every Tileset, Layer, Tile and Object row written so
\* far, in place and unchanged.
C14_Step ==
    (pc \in {"loop", "tilesets", "layers"} /\ pc' = "returned" /\ result'.tag = "Err")
        => /\ IsPrefix(tiled_tileset, tiled_tileset')
           /\ IsPrefix(tiled_layer, tiled_layer')
           /\ IsPrefix(tiled_tile, tiled_tile')
           /\ IsPrefix(tiled_object, tiled_object')

C14_NoRollbackOnFailure == [][C14_Step]_vars

\* a failed load has left a Layer row and a Tile row of a map that has no
\* Map row: the store holds a partially loaded map
C14_Witness ==
    /\ pc = "returned"
    /\ result.tag = "Err"
    /\ \E i \in 1..Len(tiled_layer) :
          /\ tiled_layer[i].map_id = map_id
          /\ \E j \in 1..Len(tiled_tile) : tiled_tile[j].layer_id = tiled_layer[i].layer_id
    /\ map_id \notin MapKeys

\* the keys of `table`, read in insertion order, are strictly increasing
KeysIncreasing(table, key) ==
    \A i, j \in 1..Len(table) : i < j => table[i][key] < table[j][key]

DuplicateKeyErrors ==
    {"Failed to insert map", "Failed to insert layer", "Failed to insert tile",
     "Failed to insert tileset", "Failed to insert object", "Failed to insert property"}

\* C15: with loads run one after another on a store without deletions, the
\* ids of each entity kind, read in the order the rows were inserted (each
\* row is inserted right after its id is allocated), are strictly increasing,
\* hence pairwise distinct; the map_id a streaming load allocated at its
\* start stays larger than every Map key until the load inserts its Map row;
\* and no insert fails with a duplicate primary key.
C15_IdsIncreasingNoDuplicateKey ==
    /\ KeysIncreasing(tiled_map, "map_id")
    /\ KeysIncreasing(tiled_layer, "layer_id")
    /\ KeysIncreasing(tiled_tile, "tile_id")
    /\ KeysIncreasing(tiled_tileset, "tileset_id")
    /\ KeysIncreasing(tiled_object, "object_id")
    /\ KeysIncreasing(tiled_property, "property_id")
    /\ pc = "loop" => \A k \in MapKeys : k < map_id
    /\ ~(result.tag = "Err" /\ result.msg \in DuplicateKeyErrors)

\* two loads have succeeded one after the other, each with a layer of its own
C15_Witness ==
    /\ pc = "returned"
    /\ result.tag = "Ok"
    /\ Len(tiled_map) = 2
    /\ \E i, j \in 1..Len(tiled_layer) :
          tiled_layer[i].map_id = 0 /\ tiled_layer[j].map_id = 1

NewLayers == SubSeq(tiled_layer', Len(tiled_layer) + 1, Len(tiled_layer'))

\* C18: every Layer row the streaming load writes, for a <layer> (kind
\* "tile") or an <objectgroup> (kind "object"), has z_order equal to its own
\* layer_id.
C18_Step ==
    pc = "loop" =>
        \A k \in 1..Len(NewLayers) :
            /\ NewLayers[k].z_order = NewLayers[k].layer_id
            /\ NewLayers[k].layer_type =
                   (IF event'.name = "layer" THEN "tile" ELSE "object")

C18_StreamingZOrderIsLayerId == [][C18_Step]_vars

\* a streaming load has just written, as the first layer of its map, an
\* object-kind Layer row whose layer_id and z_order are not 0
C18_Witness ==
    /\ pc = "loop"
    /\ IsTag(event, "objectgroup")
    /\ Last(tiled_layer).layer_type = "object"
    /\ Last(tiled_layer).layer_id >= 1
    /\ Last(tiled_layer).z_order = Last(tiled_layer).layer_id
    /\ Cardinality({i \in 1..Len(tiled_layer) : tiled_layer[i].map_id = map_id}) = 1
    /\ \E i \in 1..Len(tiled_layer) : tiled_layer[i].layer_type = "tile"

\* C19 (as claimed): z_order reflects the order of emission within a map, on
\* both load paths: of any two Layer rows with the same map_id, the one
\* emitted earlier has the strictly smaller z_order.
C19_ZOrderReflectsEmissionOrder ==
    \A i, j \in 1..Len(tiled_layer) :
        (i < j /\ tiled_layer[i].map_id = tiled_layer[j].map_id)
            => tiled_layer[i].z_order < tiled_layer[j].z_order

NewTilesets == SubSeq(tiled_tileset', Len(tiled_tileset) + 1, Len(tiled_tileset'))

\* C20: in a streaming load the counter behind tileset_index starts at 0,
\* moves only when a <tileset> tag is read, and then by one; the Tileset row
\* written for that tag carries the counter's value before the move.  So
\* the k-th <tileset> tag (k from 0) yields tileset_index = k, while its
\* tileset_id is the row count of the table.
C20_Step ==
    /\ (pc # "loop" /\ pc' = "loop") => tileset_counter' = 0
    /\ pc = "loop" =>
          IF IsTag(event', "tileset") /\ nread' = nread + 1
          THEN /\ Len(NewTilesets) = 1
               /\ NewTilesets[1].tileset_index = tileset_counter
               /\ NewTilesets[1].tileset_id = Count(tiled_tileset)
               /\ tileset_counter' = tileset_counter + 1
          ELSE /\ Len(NewTilesets) = 0
               /\ tileset_counter' = tileset_counter

C20_TilesetIndexCountsTilesetTags == [][C20_Step]_vars

\* on a store that already held two Tileset rows, a streaming load has just
\* read its second <tileset> tag: index 1 under tileset_id 3
C20_Witness ==
    /\ pc = "loop"
    /\ IsTag(event, "tileset")
    /\ tileset_counter = 2
    /\ Last(tiled_tileset).tileset_index = 1
    /\ Last(tiled_tileset).tileset_id = 3
    /\ Last(tiled_tileset).map_id = map_id

\* C22: an <object> tag or a text run read while no layer context is set is
\* dropped: the step writes no Object and no Tile row (so allocates no id),
\* raises no error, and the load goes on.
C22_Step ==
    (/\ pc = "loop" /\ ~current_layer_id.some /\ nread' = nread + 1
     /\ (IsTag(event', "object") \/ event'.kind = "Text"))
        => /\ tiled_object' = tiled_object
           /\ tiled_tile' = tiled_tile
           /\ pc' = "loop"
           /\ result' = result

C22_DroppedOutsideLayerContext == [][C22_Step]_vars

\* an <object> read after the only layer of the load was closed by its end
\* tag has left no Object row, and the load goes on
C22_Witness ==
    /\ pc = "loop"
    /\ loads = 1
    /\ IsTag(event, "object")
    /\ ~current_layer_id.some
    /\ Len(tiled_layer) = 1
    /\ tiled_layer[1].layer_type = "object"
    /\ tiled_object = <<>>

\* the step reads a <layer> or <objectgroup> tag
ReadsLayerOpen ==
    nread' = nread + 1 /\ (IsTag(event', "layer") \/ IsTag(event', "objectgroup"))

\* C23: reading a </layer> or </objectgroup> end tag clears the layer
\* context (id unset, kind empty); the context then stays unset until a
\* <layer> or <objectgroup> tag is read, and while it is unset no step of
\* the load writes a Tile or an Object row.
C23_Step ==
    pc = "loop" =>
        /\ (/\ nread' = nread + 1 /\ event'.kind = "End"
            /\ event'.name \in {"layer", "objectgroup"})
               => (current_layer_id' = None /\ current_layer_type' = "" /\ pc' = "loop")
        /\ (~current_layer_id.some /\ ~ReadsLayerOpen) => ~current_layer_id'.some
        /\ ~current_layer_id.some => (Len(NewTiles) = 0 /\ Len(NewObjects) = 0)

C23_EndTagClearsLayerContext == [][C23_Step]_vars

\* inside <map>, after <objectgroup><object/></objectgroup>, a second
\* <object/> was read and left no row: the group's one Object row is the only one
C23_Witness ==
    /\ pc = "loop"
    /\ loads = 1
    /\ IsTag(event, "object")
    /\ current_layer_id = None
    /\ current_layer_type = ""
    /\ Len(tiled_layer) = 1
    /\ Len(tiled_object) = 1
    /\ Len(open) = 1
    /\ open[1].name = "map"

\* C26: a load only appends rows: in each of the six tables every row that
\* exists before a step of a load, streaming or tree-based, succeeding or
\* failing, is still in its place with the same field values after it.
C26_Step ==
    /\ IsPrefix(tiled_map, tiled_map')
    /\ IsPrefix(tiled_tileset, tiled_tileset')
    /\ IsPrefix(tiled_layer, tiled_layer')
    /\ IsPrefix(tiled_tile, tiled_tile')
    /\ IsPrefix(tiled_object, tiled_object')
    /\ IsPrefix(tiled_property, tiled_property')

C26_LoadOnlyAppendsRows == [][C26_Step]_vars

\* a second streaming load failed after writing a Layer row, and the Map and
\* Layer rows of the first, successful load are still there
C26_Witness ==
    /\ loads = 2
    /\ pc = "returned"
    /\ result.tag = "Err"
    /\ Len(tiled_map) = 1
    /\ tiled_map[1].map_id = 0
    /\ Len(tiled_layer) = 2
    /\ tiled_layer[1].map_id = 0
    /\ tiled_layer[2].map_id = 1

\* the Property rows of `props` for the key of one owner
PropertyRowsOf(props, parent_type, parent_id, key) ==
    {i \in 1..Len(props) : /\ props[i].parent_type = parent_type
                           /\ props[i].parent_id = parent_id
                           /\ props[i].key = key}

\* each of `properties` has exactly one row in `props` under the owner
StoredOnce(props, parent_type, parent_id, properties) ==
    \A i \in 1..Len(properties) :
        Cardinality(PropertyRowsOf(props, parent_type, parent_id, properties[i].key)) = 1

\* C28 (as claimed): in the tree-based load each property of a map, a layer,
\* a tile, an object or a tileset gets exactly one Property row per key, whose
\* parent_type names the owner's kind and whose parent_id is the id the load
\* allocated to the owner.
C28_Step ==
    /\ (pc = "tilesets" /\ pc' = "tilesets" /\ node'.kind = "Tileset")
          => /\ StoredOnce(tiled_property', "tileset", Last(tiled_tileset').tileset_id,
                           node'.tileset.properties)
             /\ \A t \in 1..Len(node'.tileset.tiles) :
                    \A i \in 1..Len(node'.tileset.tiles[t].properties) :
                        \E r \in 1..Len(tiled_property') :
                            /\ tiled_property'[r].parent_type = "tile"
                            /\ tiled_property'[r].key = node'.tileset.tiles[t].properties[i].key
    /\ (pc \in {"tilesets", "layers"} /\ pc' = "layers")
          => /\ StoredOnce(tiled_property', "layer", Last(tiled_layer').layer_id,
                           node'.layer.properties)
             /\ \A o \in 1..Len(node'.layer.objects) :
                    StoredOnce(tiled_property', "object",
                               tiled_object'[Len(tiled_object) + o].object_id,
                               node'.layer.objects[o].properties)
    /\ (pc \in {"tilesets", "layers"} /\ pc' = "returned" /\ result'.tag = "Ok")
          => StoredOnce(tiled_property', "map", result'.id, node'.properties)

C28_OnePropertyRowPerOwnerKey == [][C28_Step]_vars

\* the tiled::Map of the document read so far: the <map> attributes as the
\* tree-based load receives them (no background color in these documents)
ParsedMap ==
    [width |-> width, height |-> height, tile_width |-> tile_width,
     tile_height |-> tile_height, orientation |-> orientation,
     background_color |-> NoColor]

\* the tiled::Layer of a <layer> or <objectgroup> tag
ParsedLayer(e) ==
    [name |-> AttrString(e.attrs, "name", ""),
     kind |-> IF e.name = "layer" THEN "Tiles" ELSE "Objects",
     visible |-> AttrVisible(e.attrs),
     opacity |-> AttrF32(e.attrs, "opacity", 1000, 1000),
     offset_x |-> AttrF32(e.attrs, "offsetx", 0, 0),
     offset_y |-> AttrF32(e.attrs, "offsety", 0, 0)]

\* the number of layers the running load has stored: the layer_index the
\* tree-based load is at after the same layers
LayersOfThisLoad == Len(SelectSeq(tiled_layer, LAMBDA r : r.map_id = map_id))

\* C31 (as claimed): the streaming load leaves the rows the tree-based load
\* leaves for the same document on the same store: each Layer row it writes
\* is the row load_tmx_map_internal writes for that layer (z_order its index
\* in the map), and the Map row of a document whose <map> tag gives a width
\* is the one load_tmx_map_internal writes.
C31_Step ==
    (pc = "loop" /\ Len(tiled_map) = loads - 1) =>
        /\ \A k \in 1..Len(NewLayers) :
               NewLayers[k] = [TreeLayerRow(ParsedLayer(event'), NewLayers[k].layer_id)
                                  EXCEPT !.z_order = LayersOfThisLoad]
        /\ (pc' = "returned" /\ result'.tag = "Ok" /\ width > 0)
               => Last(tiled_map') = TreeMapRow(ParsedMap, map_id, map_name)

C31_TreeAndStreamingLoadsAgree == [][C31_Step]_vars

\* C5 (as claimed): every Object row belongs to an object-kind layer: its
\* layer_id is the key of a Layer row whose layer_type is "object".
C5_ObjectsInObjectLayers ==
    \A i \in 1..Len(tiled_object) :
        \E j \in 1..Len(tiled_layer) :
            /\ tiled_layer[j].layer_id = tiled_object[i].layer_id
            /\ tiled_layer[j].layer_type = "object"

\* C6 (as claimed): whenever a step of the streaming load emits a Tile or
\* Object row, its layer_id is the id of a <layer>/<objectgroup> element that
\* is open (started and not yet ended) at that point of the document.
C6_Step ==
    pc = "loop" =>
    /\ \A k \in 1..Len(NewTiles) : NewTiles[k].layer_id \in OpenLayerIds
    /\ \A k \in 1..Len(NewObjects) : NewObjects[k].layer_id \in OpenLayerIds

C6_RowsReferenceOpenLayer == [][C6_Step]_vars

\* C7 (as claimed): in_data_element is set only while the tokenizer is
\* between a <data> start tag and its end tag inside an open <layer>, and a
\* text run is decoded into Tile rows only as the content of such a <data>.
C7_Step ==
    pc = "loop" =>
    /\ in_data_element' => InsideLayerData(open')
    /\ Len(NewTiles) > 0 => (InsideLayerData(open) /\ Last(open).name = "data")

C7_InDataOnlyInsideLayerData == [][C7_Step]_vars

\* ------------------------------------------------------------------------
\* SpecEnc: successive streaming loads, each of one whole well-formed
\* document <map width height><layer><data ..>text</data></layer></map>
\* out of a family whose <data> elements name a tile-data encoding and hold
\* CSV or base64 text.  The height names the encoding and the text.
\* ------------------------------------------------------------------------
Csv == <<"c", "s", "v">>

Base64 == <<"b", "a", "s", "e", "6", "4">>

EncWidths == {1, 2}

EncHeights == {1, 2, 3}

EncDataAttrs(h) ==
    CASE h = 1 -> <<<<"encoding", Csv>>>>
      [] h = 2 -> <<<<"encoding", Base64>>>>
      [] OTHER -> <<<<"encoding", Base64>>, <<"compression", <<"z", "l", "i", "b">>>>>>

\* "1,2" as CSV; "AQAAAA==" (the base64 text of the single cell 1) and
\* "12345678" (base64 text made of decimal digits only)
EncDataText(h) ==
    CASE h = 1 -> <<"1", ",", "2">>
      [] h = 2 -> <<"A", "Q", "A", "A", "A", "A", "=", "=">>
      [] OTHER -> <<"1", "2", "3", "4", "5", "6", "7", "8">>

EncDoc(w, h) ==
    <<Tag("Start", "map", <<<<"width", Numeral(w)>>, <<"height", Numeral(h)>>>>, FALSE),
      Tag("Start", "layer", <<>>, FALSE),
      Tag("Start", "data", EncDataAttrs(h), FALSE),
      TextEv(EncDataText(h)),
      EndEv("data"),
      EndEv("layer"),
      EndEv("map"),
      EofEv>>

EncLen == Len(EncDoc(1, 1))

\* the next event of the document being loaded: any document's first event
\* at the start of a load, then the events of the document whose <map> tag
\* was read (width and height name it)
EncEvents ==
    LET pos == (nread % EncLen) + 1
    IN  IF pos = 1
        THEN {EncDoc(w, h)[1] : w \in EncWidths, h \in EncHeights}
        ELSE {EncDoc(width, height)[pos]}

EncMap == \E e \in EncEvents : MapTag(e)

EncLayer == \E e \in EncEvents : LayerTag(e)

EncData == \E e \in EncEvents : DataTag(e)

EncText == \E e \in EncEvents : TextEvent(e)

EncEndLayer == \E e \in EncEvents : EndLayer(e)

EncEndData == \E e \in EncEvents : EndData(e)

EncEndOther == \E e \in EncEvents : EndOther(e)

EncEof == \E e \in EncEvents : EofEvent(e)

NextEnc ==
    \/ BeginLoad
    \/ EncMap
    \/ EncLayer
    \/ EncData
    \/ EncText
    \/ EncEndLayer
    \/ EncEndData
    \/ EncEndOther
    \/ EncEof

SpecEnc == Init /\ [][NextEnc]_vars

\* e is a <data> tag naming an encoding other than csv
EncodedData(e) ==
    /\ IsTag(e, "data")
    /\ HasAttr(e.attrs, "encoding")
    /\ AttrValue(e.attrs, "encoding") # Csv

\* the document whose <map> tag set width and height holds a <data> tag
\* naming an encoding other than csv
LoadedEncodedData ==
    /\ width \in EncWidths
    /\ height \in EncHeights
    /\ \E k \in 1..EncLen : EncodedData(EncDoc(width, height)[k])

\* C11 (as claimed): a streaming load of a document that holds a <data> tag
\* naming an encoding other than csv does not return Ok: it returns Err.
C11_UnsupportedEncodingIsFatal ==
    (pc = "returned" /\ LoadedEncodedData) => result.tag = "Err"

\* C12 (as claimed): the base64 text content of a <data> element naming an
\* encoding other than csv yields no Tile rows, whatever base64 characters it
\* consists of (decimal digits included).
Base64Alphabet ==
    Digits \cup {"A", "B", "C", "D", "E", "F", "G", "H", "I", "J", "K", "L", "M",
                 "N", "O", "P", "Q", "R", "S", "T", "U", "V", "W", "X", "Y", "Z",
                 "a", "b", "c", "d", "e", "f", "g", "h", "i", "j", "k", "l", "m",
                 "n", "o", "p", "q", "r", "s", "t", "u", "v", "w", "x", "y", "z",
                 "+", "/", "="}

IsBase64Text(t) == \A i \in 1..Len(t) : t[i] \in Base64Alphabet

C12_Step ==
    (/\ pc = "loop" /\ EncodedData(event) /\ event.kind = "Start"
     /\ event'.kind = "Text" /\ IsBase64Text(event'.text))
        => Len(NewTiles) = 0

C12_EncodedDataYieldsNoTiles == [][C12_Step]_vars

\* ------------------------------------------------------------------------
\* SpecTwice: successive streaming loads, each of one whole document out of
\* a family of documents that differ in <map width height>, in their second
\* element and in their tile data
\* ------------------------------------------------------------------------
TwiceWidths == {1, 2, 3}

TwiceHeights == {1, 2}

TwiceText(w) ==
    CASE w = 1 -> <<"1">>
      [] w = 2 -> <<"1", ",", "2", ",", "0", ",", "3">>
      [] OTHER -> <<"0", ",", "5">>

\* <map width=w height=h> (<tileset/> | <properties/>)
\*   <layer><data>CSV</data></layer> <objectgroup><object/></objectgroup>
\* </map>, then Eof
TwiceDoc(w, h) ==
    <<Tag("Start", "map", <<<<"width", Numeral(w)>>, <<"height", Numeral(h)>>>>, FALSE),
      Tag("Empty", IF h = 1 THEN "tileset" ELSE "properties", <<>>, FALSE),
      Tag("Start", "layer", <<>>, FALSE),
      Tag("Start", "data", <<>>, FALSE),
      TextEv(TwiceText(w)),
      EndEv("data"),
      EndEv("layer"),
      Tag("Start", "objectgroup", <<>>, FALSE),
      Tag("Empty", "object", <<>>, FALSE),
      EndEv("objectgroup"),
      EndEv("map"),
      EofEv>>

TwiceLen == Len(TwiceDoc(1, 1))

\* the next event of the document being loaded: any document's first event
\* at the start of a load, then the events of the document whose <map> tag
\* was read (width and height name it)
TwiceEvents ==
    LET pos == (nread % TwiceLen) + 1
    IN  IF pos = 1
        THEN {TwiceDoc(w, h)[1] : w \in TwiceWidths, h \in TwiceHeights}
        ELSE {TwiceDoc(width, height)[pos]}

TwiceMap == \E e \in TwiceEvents : MapTag(e)

TwiceTileset == \E e \in TwiceEvents : TilesetTag(e)

TwiceLayer == \E e \in TwiceEvents : LayerTag(e)

TwiceObjectGroup == \E e \in TwiceEvents : ObjectGroupTag(e)

TwiceObject == \E e \in TwiceEvents : ObjectTag(e)

TwiceData == \E e \in TwiceEvents : DataTag(e)

TwiceOther == \E e \in TwiceEvents : OtherTag(e)

TwiceTextRun == \E e \in TwiceEvents : TextEvent(e)

TwiceEndLayer == \E e \in TwiceEvents : EndLayer(e)

TwiceEndData == \E e \in TwiceEvents : EndData(e)

TwiceEndOther == \E e \in TwiceEvents : EndOther(e)

TwiceEof == \E e \in TwiceEvents : EofEvent(e)

NextTwice ==
    \/ BeginLoad
    \/ TwiceMap
    \/ TwiceTileset
    \/ TwiceLayer
    \/ TwiceObjectGroup
    \/ TwiceObject
    \/ TwiceData
    \/ TwiceOther
    \/ TwiceTextRun
    \/ TwiceEndLayer
    \/ TwiceEndData
    \/ TwiceEndOther
    \/ TwiceEof

SpecTwice == Init /\ [][NextTwice]_vars

\* the rows a load wrote for the map with key m, by kind
LayersOf(m) == {i \in 1..Len(tiled_layer) : tiled_layer[i].map_id = m}

TilesetsOf(m) == {i \in 1..Len(tiled_tileset) : tiled_tileset[i].map_id = m}

LayerIdsOf(m) == {tiled_layer[i].layer_id : i \in LayersOf(m)}

TilesOf(m) == {i \in 1..Len(tiled_tile) : tiled_tile[i].layer_id \in LayerIdsOf(m)}

ObjectsOf(m) == {i \in 1..Len(tiled_object) : tiled_object[i].layer_id \in LayerIdsOf(m)}

\* Map rows i and j were loaded from the same document of the family
SameDocument(i, j) ==
    /\ tiled_map[i].width = tiled_map[j].width
    /\ tiled_map[i].height = tiled_map[j].height

\* C16: loading is not idempotent.  Every load that reaches Eof returns Ok
\* with the key of a Map row of its own, so that n loads leave n Map rows
\* with pairwise distinct map_ids; and of two loads of the same document the
\* later adds as many Tileset, Layer, Tile and Object rows as the earlier.
C16_LoadIsNotIdempotent ==
    /\ (pc = "returned" /\ event.kind = "Eof")
          => /\ result.tag = "Ok"
             /\ Len(tiled_map) = loads
             /\ result.id = Last(tiled_map).map_id
    /\ \A i, j \in 1..Len(tiled_map) :
          (i < j /\ pc = "returned")
              => /\ tiled_map[i].map_id # tiled_map[j].map_id
                 /\ SameDocument(i, j)
                       => LET a == tiled_map[i].map_id
                              b == tiled_map[j].map_id
                          IN  /\ Cardinality(TilesetsOf(a)) = Cardinality(TilesetsOf(b))
                              /\ Cardinality(LayersOf(a)) = Cardinality(LayersOf(b))
                              /\ Cardinality(TilesOf(a)) = Cardinality(TilesOf(b))
                              /\ Cardinality(ObjectsOf(a)) = Cardinality(ObjectsOf(b))

\* the document with three tiles, a tileset, two layers and an object has
\* been loaded twice
C16_Witness ==
    /\ pc = "returned"
    /\ result = [tag |-> "Ok", id |-> 1, msg |-> ""]
    /\ Len(tiled_map) = 2
    /\ SameDocument(1, 2)
    /\ Cardinality(TilesOf(1)) = 3
    /\ Cardinality(TilesetsOf(1)) = 1
    /\ Cardinality(LayersOf(1)) = 2
    /\ Cardinality(ObjectsOf(1)) = 1
    /\ Len(tiled_tile) = 6

\* ------------------------------------------------------------------------
\* SpecRace: two streaming load calls on one store whose event handlers
\* interleave.  Each call has its own locals, so in this specification pc,
\* result, map_id, current_layer_id and current_layer_type are functions
\* from the call to its value.  The documents are sequences of self-closing
\* <layer/> and <objectgroup/> tags; each handler runs as one step.
\* ------------------------------------------------------------------------
\* the two calls
Calls == {1, 2}

InitRace ==
    /\ ClientDefault
    /\ tiled_map = <<>> /\ tiled_layer = <<>> /\ tiled_tile = <<>>
    /\ tiled_tileset = <<>> /\ tiled_object = <<>> /\ tiled_property = <<>>
    /\ pc = [c \in Calls |-> "idle"]
    /\ result = [c \in Calls |-> [tag |-> "None", id |-> 0, msg |-> ""]]
    /\ loads = 0 /\ nread = 0
    /\ map_id = [c \in Calls |-> 0] /\ map_name = ""
    /\ width = 0 /\ height = 0 /\ tile_width = 0 /\ tile_height = 0
    /\ orientation = Orthogonal
    /\ background_color = NoneStr
    /\ current_layer_id = [c \in Calls |-> None]
    /\ current_layer_type = [c \in Calls |-> ""]
    /\ in_data_element = FALSE
    /\ tileset_counter = 0
    /\ open = <<>> /\ root_seen = FALSE /\ event = NoEvent
    /\ tileset_index = 0 /\ layer_index = 0 /\ node = NoNode

RaceTags == {TagOf("layer", <<>>, {"Empty"}), TagOf("objectgroup", <<>>, {"Empty"})}

\* call c starts: `let map_id = generate_map_id(ctx)?` and the locals
RaceBegin(c) ==
    /\ pc[c] = "idle"
    /\ loads' = loads + 1
    /\ pc' = [pc EXCEPT ![c] = "loop"]
    /\ map_id' = [map_id EXCEPT ![c] = generate_map_id]
    /\ current_layer_id' = [current_layer_id EXCEPT ![c] = None]
    /\ current_layer_type' = [current_layer_type EXCEPT ![c] = ""]
    /\ UNCHANGED <<db, result, nread, map_name, mapmeta, in_data_element,
                   tileset_counter, tree, tokenizer, client>>

\* call c reads a <layer/> or <objectgroup/>: b"layer" / b"objectgroup"
RaceOpenLayer(c) ==
    /\ pc[c] = "loop"
    /\ nread < MaxRaceEvents
    /\ \E t \in RaceTags :
          LET e == Tag("Empty", t.name, t.attrs, t.attr_err)
              type == IF t.name = "layer" THEN "tile" ELSE "object"
              id == generate_layer_id
              row == [LayerRow(e, id, type) EXCEPT !.map_id = map_id[c]]
              ins == TryInsert(tiled_layer, "layer_id", row)
          IN  /\ event' = e
              /\ root_seen' = TRUE
              /\ tiled_layer' = ins.table
              /\ IF ins.ok
                 THEN /\ current_layer_id' = [current_layer_id EXCEPT ![c] = Some(id)]
                      /\ current_layer_type' = [current_layer_type EXCEPT ![c] = type]
                      /\ UNCHANGED <<pc, result>>
                 ELSE /\ pc' = [pc EXCEPT ![c] = "returned"]
                      /\ result' = [result EXCEPT ![c] =
                                       [tag |-> "Err", id |-> 0, msg |-> "Failed to insert layer"]]
                      /\ UNCHANGED layerctx
    /\ nread' = nread + 1
    /\ UNCHANGED <<tiled_map, tiled_tile, tiled_tileset, tiled_object, tiled_property,
                   loads, map_id, map_name, mapmeta, in_data_element, tileset_counter,
                   tree, open, client>>

\* call c reads Eof: the Map insert after the loop, and the return
RaceEof(c) ==
    /\ pc[c] = "loop"
    /\ nread < MaxRaceEvents
    /\ nread' = nread + 1
    /\ event' = EofEv
    /\ LET row == [MapRow EXCEPT !.map_id = map_id[c]]
           ins == TryInsert(tiled_map, "map_id", row)
       IN  /\ tiled_map' = ins.table
           /\ pc' = [pc EXCEPT ![c] = "returned"]
           /\ result' = [result EXCEPT ![c] =
                            IF ins.ok
                            THEN [tag |-> "Ok", id |-> map_id[c], msg |-> ""]
                            ELSE [tag |-> "Err", id |-> 0, msg |-> "Failed to insert map"]]
    /\ UNCHANGED <<tiled_layer, tiled_tile, tiled_tileset, tiled_object, tiled_property,
                   loads, map_id, map_name, mapmeta, layerctx, in_data_element,
                   tileset_counter, tree, open, root_seen, client>>

RaceBeginCall == \E c \in Calls : RaceBegin(c)

RaceReadLayer == \E c \in Calls : RaceOpenLayer(c)

RaceReadEof == \E c \in Calls : RaceEof(c)

NextRace ==
    \/ RaceBeginCall
    \/ RaceReadLayer
    \/ RaceReadEof

SpecRace == InitRace /\ [][NextRace]_vars

\* call c took its map_id while call d was between generate_map_id and its
\* Map insert, or the other way round: both have started and neither had
\* inserted its Map row before the other started
SameMapId(c, d) == c # d /\ pc[c] # "idle" /\ pc[d] # "idle" /\ map_id[c] = map_id[d]

\* C17: two interleaved loads are not safe.  Two calls that are both inside
\* their event loops hold the same map_id, and so do the Layer rows they
\* write; when two calls that took the same map_id have both returned, one
\* returned Ok and the other failed with the duplicate-key error of the Map
\* insert.
C17_InterleavedLoadsShareMapId ==
    \A c, d \in Calls :
        /\ (c # d /\ pc[c] = "loop" /\ pc[d] = "loop") => map_id[c] = map_id[d]
        /\ (SameMapId(c, d) /\ pc[c] = "returned" /\ pc[d] = "returned")
              => \/ /\ result[c].tag = "Ok"
                    /\ result[d] = [tag |-> "Err", id |-> 0, msg |-> "Failed to insert map"]
                 \/ /\ result[d].tag = "Ok"
                    /\ result[c] = [tag |-> "Err", id |-> 0, msg |-> "Failed to insert map"]

\* both calls took map_id 0 before either inserted, each wrote a Layer row
\* under it, the first Map insert succeeded and the second was rejected
C17_Witness ==
    /\ SameMapId(1, 2)
    /\ result[1].tag = "Ok"
    /\ result[2] = [tag |-> "Err", id |-> 0, msg |-> "Failed to insert map"]
    /\ Len(tiled_map) = 1
    /\ Len(tiled_layer) = 2
    /\ \A i \in 1..Len(tiled_layer) : tiled_layer[i].map_id = map_id[1]

\* ------------------------------------------------------------------------
\* SpecShape: the streaming load on documents of <objectgroup> and <object>
\* tags over a wide choice of width and height values
\* ------------------------------------------------------------------------
\* texts that parse to zero, texts that do not parse (the local then takes
\* the default 0), and texts that parse to a non-zero value
ZeroSizes == {<<"0">>, <<"0", ".", "0">>, <<"-", "0">>}

UnparsableSizes == {<<>>, <<"x">>}

NonZeroSizes == {<<"5">>, <<"0", ".", "5">>, <<"-", "2">>}

SizeAttrs(key) ==
    {<<>>} \cup {<<<<key, v>>>> : v \in ZeroSizes \cup UnparsableSizes \cup NonZeroSizes}

ShapeTags ==
    {TagOf("objectgroup", <<>>, {"Start"})}
        \cup {TagOf("object", w \o h, {"Empty"}) : w \in SizeAttrs("width"), h \in SizeAttrs("height")}

ShapeEvents == IF nread < MaxShapeEvents THEN NextEvents(ShapeTags, {}) ELSE {}

ShapeObjectGroup == \E e \in ShapeEvents : ObjectGroupTag(e)

ShapeObject == \E e \in ShapeEvents : ObjectTag(e)

ShapeEndLayer == \E e \in ShapeEvents : EndLayer(e)

ShapeEof == \E e \in ShapeEvents : EofEvent(e)

NextShape ==
    \/ BeginLoad
    \/ ShapeObjectGroup
    \/ ShapeObject
    \/ ShapeEndLayer
    \/ ShapeEof

SpecShape == Init /\ [][NextShape]_vars

\* the attribute `key` of the tag is absent, or its text parses to zero, or
\* its text does not parse
SizeIsZero(attrs, key) ==
    HasAttr(attrs, key) => AttrValue(attrs, key) \in ZeroSizes \cup UnparsableSizes

\* C21: the Object row written for an <object> tag has shape "point" exactly
\* when width and height are both zero after parsing (absent and unparsable
\* attributes counting as 0), and shape "rectangle" in every other case.
C21_PointIffBothSizesZero ==
    (pc = "loop" /\ IsTag(event, "object") /\ current_layer_id.some)
        => Last(tiled_object).shape =
              (IF SizeIsZero(event.attrs, "width") /\ SizeIsZero(event.attrs, "height")
               THEN "point" ELSE "rectangle")

\* an object with width "x" (unparsable) and no height was stored as a point
\* after an object with width 0 and height 0.5 was stored as a rectangle
C21_Witness ==
    /\ pc = "loop"
    /\ IsTag(event, "object")
    /\ event.attrs = <<<<"width", <<"x">>>>>>
    /\ Len(tiled_object) = 2
    /\ tiled_object[2].shape = "point"
    /\ tiled_object[1].shape = "rectangle"
    /\ tiled_object[1].width = 0
    /\ tiled_object[1].height = 500

\* ------------------------------------------------------------------------
\* The streaming load over documents of <map> tags: none, one or several,
\* with all, some or none of the attributes the map arm reads
\* ------------------------------------------------------------------------
Isometric == <<"i", "s", "o", "m", "e", "t", "r", "i", "c">>

Red == <<"#", "f", "f", "0", "0", "0", "0">>

FullMapAttrs ==
    <<<<"width", <<"3">>>>, <<"height", <<"4">>>>, <<"tilewidth", <<"1", "6">>>>,
      <<"tileheight", <<"8">>>>, <<"orientation", Isometric>>, <<"backgroundcolor", Red>>>>

MapTags ==
    {TagOf("map", <<>>, BothForms),
     TagOf("map", FullMapAttrs, BothForms),
     TagOf("map", <<<<"height", <<"7">>>>>>, BothForms),
     TagOf("map", <<<<"width", <<"x">>>>, <<"tileheight", <<"-", "1">>>>>>, {"Start"}),
     TagOf("tmx", <<>>, {"Start"})}

MapEvents == IF nread < MaxMapEvents THEN NextEvents(MapTags, {}) ELSE {}

MapMap == \E e \in MapEvents : MapTag(e)

MapOther == \E e \in MapEvents : OtherTag(e)

MapEndOther == \E e \in MapEvents : EndOther(e)

MapEof == \E e \in MapEvents : EofEvent(e)

NextMap ==
    \/ BeginLoad
    \/ MapMap
    \/ MapOther
    \/ MapEndOther
    \/ MapEof

SpecMap == Init /\ [][NextMap]_vars

\* what the numeric attribute texts of MapTags mean as u32 (0 for the texts
\* that are no u32)
MapNumber(text) ==
    CASE text = <<"3">> -> 3
      [] text = <<"4">> -> 4
      [] text = <<"7">> -> 7
      [] text = <<"8">> -> 8
      [] text = <<"1", "6">> -> 16
      [] OTHER -> 0

\* the value a numeric local holds after a <map> tag with these attributes
Captured(attrs, key, before) ==
    IF HasAttr(attrs, key) THEN MapNumber(AttrValue(attrs, key)) ELSE before

C25_Step ==
    /\ (pc # "loop" /\ pc' = "loop")
          => /\ width' = 0 /\ height' = 0 /\ tile_width' = 0 /\ tile_height' = 0
             /\ orientation' = "orthogonal"
             /\ ~background_color'.some
    /\ (pc = "loop" /\ IsTag(event', "map"))
          => /\ width' = Captured(event'.attrs, "width", width)
             /\ height' = Captured(event'.attrs, "height", height)
             /\ tile_width' = Captured(event'.attrs, "tilewidth", tile_width)
             /\ tile_height' = Captured(event'.attrs, "tileheight", tile_height)
             /\ orientation' = (IF HasAttr(event'.attrs, "orientation")
                                THEN Isometric ELSE orientation)
             /\ background_color' = (IF HasAttr(event'.attrs, "backgroundcolor")
                                     THEN Some(Red) ELSE background_color)
    /\ (pc = "loop" /\ ~IsTag(event', "map")) => mapmeta' = mapmeta
    /\ (pc = "loop" /\ pc' = "returned" /\ result'.tag = "Ok")
          => /\ event'.kind = "Eof"
             /\ tiled_map' = Append(tiled_map,
                                    [map_id |-> result'.id,
                                     name |-> map_name,
                                     width |-> width,
                                     height |-> height,
                                     tile_width |-> tile_width,
                                     tile_height |-> tile_height,
                                     orientation |-> orientation,
                                     background_color |-> background_color])

\* C25: a successful streaming load adds exactly one Map row, keyed by the
\* returned map_id and named map_name, whose width, height, tile_width,
\* tile_height, orientation and background_color are the values captured
\* from the <map> tags read: 0, "orthogonal" and no color for what no tag set.
C25_MapRowHoldsCapturedMetadata == [][C25_Step]_vars

\* a load of <map ... all six attributes><map height="7"/></map> returned Ok
\* with a row holding the first tag's values except the height of the second
C25_Witness ==
    /\ pc = "returned"
    /\ result.tag = "Ok"
    /\ Len(tiled_map) = 1
    /\ tiled_map[1] = [map_id |-> result.id, name |-> "level1", width |-> 3, height |-> 7,
                       tile_width |-> 16, tile_height |-> 8, orientation |-> Isometric,
                       background_color |-> Some(Red)]

\* a load of a document without any <map> tag returned Ok with a row of
\* zeros, orientation "orthogonal" and no background color
C25_WitnessNoMapTag ==
    /\ pc = "returned"
    /\ result.tag = "Ok"
    /\ event.kind = "Eof"
    /\ Len(tiled_map) = 1
    /\ tiled_map[1].width = 0 /\ tiled_map[1].tile_height = 0
    /\ tiled_map[1].orientation = "orthogonal"
    /\ ~tiled_map[1].background_color.some
    /\ nread = 3

\* ------------------------------------------------------------------------
\* The streaming load over documents with <properties>/<property>
\* sub-elements on the map, on layers and on objects
\* ------------------------------------------------------------------------
PropertyTag ==
    TagOf("property", <<<<"name", <<"h", "p">>>>, <<"value", <<"3">>>>>>, {"Empty"})

PropsTags ==
    {TagOf("map", <<>>, {"Start"}),
     TagOf("layer", <<>>, {"Start"}),
     TagOf("objectgroup", <<>>, {"Start"}),
     TagOf("object", <<>>, {"Start"}),
     TagOf("properties", <<>>, {"Start"}),
     PropertyTag}

PropsEvents == IF nread < MaxPropsEvents THEN NextEvents(PropsTags, {}) ELSE {}

PropsMap == \E e \in PropsEvents : MapTag(e)

PropsLayer == \E e \in PropsEvents : LayerTag(e)

PropsObjectGroup == \E e \in PropsEvents : ObjectGroupTag(e)

PropsObject == \E e \in PropsEvents : ObjectTag(e)

PropsOther == \E e \in PropsEvents : OtherTag(e)

PropsEndLayer == \E e \in PropsEvents : EndLayer(e)

PropsEndOther == \E e \in PropsEvents : EndOther(e)

PropsEof == \E e \in PropsEvents : EofEvent(e)

NextProps ==
    \/ BeginLoad
    \/ PropsMap
    \/ PropsLayer
    \/ PropsObjectGroup
    \/ PropsObject
    \/ PropsOther
    \/ PropsEndLayer
    \/ PropsEndOther
    \/ PropsEof

SpecProps == Init /\ [][NextProps]_vars

\* C27: no step of a streaming load writes to the Property table, whatever
\* the document holds: <properties> and <property> elements on the map, on a
\* layer or on an object leave the table as it was.
C27_Step == pc = "loop" => tiled_property' = tiled_property

C27_StreamingLeavesPropertyTable == [][C27_Step]_vars

\* a <property name="hp" value="3"/> was read inside the <properties> of an
\* <object> whose row was written, and the Property table is still empty
C27_Witness ==
    /\ pc = "loop"
    /\ event = Tag("Empty", "property", PropertyTag.attrs, FALSE)
    /\ Len(open) = 3
    /\ open[1].name = "objectgroup"
    /\ open[2].name = "object"
    /\ open[3].name = "properties"
    /\ Len(tiled_object) = 1
    /\ tiled_property = <<>>

\* ------------------------------------------------------------------------
\* The tree-based load of a layer carrying two properties of one variant:
\* store_properties applied to pairs of values
\* ------------------------------------------------------------------------
Color(r, g, b, a) == [red |-> r, green |-> g, blue |-> b, alpha |-> a]

ClassOf(property_type, members) == [property_type |-> property_type, properties |-> members]

PropertyValues ==
    [BoolValue |-> {TRUE, FALSE},
     FloatValue |-> {0, 500, -500, 1000, 1250},
     IntValue |-> {0, 1, -1, 10},
     ColorValue |-> {Color(1, 2, 3, 255), Color(1, 2, 3, 0), Color(2, 1, 3, 255),
                     Color(16, 0, 0, 0), Color(0, 0, 16, 0)},
     StringValue |-> {<<>>, <<"1">>, <<"t", "r", "u", "e">>},
     FileValue |-> {<<"a">>, <<"a", ".", "p", "n", "g">>},
     ObjectValue |-> {0, 1, 10},
     ClassValue |-> {ClassOf("Enemy", <<>>),
                     ClassOf("Enemy", <<[key |-> "hp", value |-> [kind |-> "IntValue", val |-> 3]]>>)}]

PairLayerOf(k, v, w) ==
    TreeLayerOf("pair", "Image", NoTiles, <<>>,
                <<[key |-> "first", value |-> [kind |-> k, val |-> v]],
                  [key |-> "second", value |-> [kind |-> k, val |-> w]]>>)

PairLayer ==
    /\ pc = "tilesets"
    /\ \E k \in DOMAIN PropertyValues :
           \E v, w \in PropertyValues[k] : StoreLayer(PairLayerOf(k, v, w))

NextPair ==
    \/ TreeBegin
    \/ PairLayer
    \/ TreeFinish

SpecPair == Init /\ [][NextPair]_vars

\* the Property row written for the i-th property of the layer just stored
LayerPropertyRow(i) ==
    tiled_property[CHOOSE r \in PropertyRowsOf(tiled_property, "layer",
                                               Last(tiled_layer).layer_id,
                                               node.layer.properties[i].key) : TRUE]

LayerStored == pc = "layers" /\ node.kind = "Layer"

IsColor(v, c) == v.kind = "ColorValue" /\ v.val = c

\* two properties stored as the same (value, value_type) pair had the same value
SamePairSameValue(i, j) ==
    (/\ LayerPropertyRow(i).value = LayerPropertyRow(j).value
     /\ LayerPropertyRow(i).value_type = LayerPropertyRow(j).value_type)
        => node.layer.properties[i].value = node.layer.properties[j].value

\* C29 (as claimed): the encoding of store_properties is injective on the
\* values of every variant, class included, so that the stored
\* (value, value_type) pair gives back the typed value.
C29_EncodingInjectiveOnEveryVariant ==
    LayerStored =>
        \A i, j \in 1..Len(node.layer.properties) : SamePairSameValue(i, j)

\* C29 (amended): the encoding is injective on the values of bool, float,
\* int, color, string, file and object; a color is stored as #rrggbbaa in
\* red, green, blue, alpha order; every class value is stored as the empty
\* string, whatever it holds.
C29_EncodingInjectiveExceptClass ==
    LayerStored =>
        \A i, j \in 1..Len(node.layer.properties) :
            /\ node.layer.properties[i].value.kind # "ClassValue" => SamePairSameValue(i, j)
            /\ node.layer.properties[i].value.kind = "ClassValue"
                  => (LayerPropertyRow(i).value = <<>> /\ LayerPropertyRow(i).value_type = "class")
            /\ IsColor(node.layer.properties[i].value, Color(1, 2, 3, 255))
                  => LayerPropertyRow(i).value = <<"#", "0", "1", "0", "2", "0", "3", "f", "f">>

\* the colors (1,2,3,255) and (1,2,3,0), which differ in alpha alone, were
\* stored as two different strings
C29_Witness ==
    /\ LayerStored
    /\ IsColor(node.layer.properties[1].value, Color(1, 2, 3, 255))
    /\ IsColor(node.layer.properties[2].value, Color(1, 2, 3, 0))
    /\ LayerPropertyRow(1).value = <<"#", "0", "1", "0", "2", "0", "3", "f", "f">>
    /\ LayerPropertyRow(2).value = <<"#", "0", "1", "0", "2", "0", "3", "0", "0">>

\* ------------------------------------------------------------------------
\* The tree-based load of an infinite tile layer of two chunks, each at a
\* non-negative origin and holding one tile
\* ------------------------------------------------------------------------
\* chunk positions: those of tiles with non-negative i32 coordinates, the
\* last being the chunk of the tile column 2^31 - 1
ChunkOrigins == {<<0, 0>>, <<1, 2>>, <<0, 3>>, <<134217727, 1>>}

ChunkLocals == {<<0, 0>>, <<3, 4>>, <<15, 15>>}

ChunkLayerOf(o1, p1, o2, p2) ==
    TreeLayerOf("far", "Tiles",
                [NoTiles EXCEPT !.infinite = TRUE,
                                !.chunks = <<[coords |-> o1, tiles |-> (p1 :> PlainTile(1))],
                                             [coords |-> o2, tiles |-> (p2 :> PlainTile(2))]>>],
                <<>>, <<>>)

ChunkLayer ==
    /\ pc = "tilesets"
    /\ \E o1, o2 \in ChunkOrigins :
           /\ o1 # o2
           /\ \E p1, p2 \in ChunkLocals : StoreLayer(ChunkLayerOf(o1, p1, o2, p2))

NextChunk ==
    \/ TreeBegin
    \/ ChunkLayer
    \/ TreeFinish

SpecChunk == Init /\ [][NextChunk]_vars

\* the Tile rows of the layer just stored
StoredTiles ==
    {i \in 1..Len(tiled_tile) : tiled_tile[i].layer_id = Last(tiled_layer).layer_id}

\* the Tile rows of the layer just stored that lie at world position (x, y)
\* and hold the tile with this id
StoredTilesAt(x, y, id) ==
    {i \in StoredTiles : /\ tiled_tile[i].x = U32(x \div 65536, x % 65536)
                         /\ tiled_tile[i].y = U32(y \div 65536, y % 65536)
                         /\ tiled_tile[i].gid = id}

InfiniteLayerStored ==
    LayerStored /\ node.layer.kind = "Tiles" /\ node.layer.tiles.infinite

\* C30: each chunk of an infinite tile layer is scanned over its 16x16 local
\* positions, and the tile at local (x, y) of the chunk at origin (cx, cy),
\* cx and cy not negative, is stored once, at x = cx*16 + x_local and
\* y = cy*16 + y_local: origin (1,2) and local (3,4) give (19,36); the layer
\* gets no other Tile row.
C30_ChunkTilesAtWorldCoordinates ==
    InfiniteLayerStored =>
        LET chunks == node.layer.tiles.chunks
        IN  /\ \A c \in 1..Len(chunks) :
                   \A p \in DOMAIN chunks[c].tiles :
                       /\ Cardinality(StoredTilesAt(chunks[c].coords[1] * 16 + p[1],
                                                    chunks[c].coords[2] * 16 + p[2],
                                                    chunks[c].tiles[p].id)) = 1
                       /\ (chunks[c].coords = <<1, 2>> /\ p = <<3, 4>>)
                             => \E i \in StoredTiles : /\ tiled_tile[i].x = U32(0, 19)
                                                       /\ tiled_tile[i].y = U32(0, 36)
            /\ Cardinality(StoredTiles) =
                   Cardinality({<<c, p>> \in (1..Len(chunks)) \X ChunkLocals :
                                   p \in DOMAIN chunks[c].tiles})

\* the chunk at origin (1,2) with a tile at local (3,4) and the chunk at
\* origin (134217727,1) with a tile at local (15,15) were stored: rows at
\* (19,36) and at (2147483647,31)
C30_Witness ==
    /\ InfiniteLayerStored
    /\ node.layer.tiles.chunks[1].coords = <<1, 2>>
    /\ DOMAIN node.layer.tiles.chunks[1].tiles = {<<3, 4>>}
    /\ node.layer.tiles.chunks[2].coords = <<134217727, 1>>
    /\ DOMAIN node.layer.tiles.chunks[2].tiles = {<<15, 15>>}
    /\ Len(tiled_tile) = 2
    /\ tiled_tile[1].x = U32(0, 19) /\ tiled_tile[1].y = U32(0, 36)
    /\ tiled_tile[2].x = U32(32767, 65535) /\ tiled_tile[2].y = U32(0, 31)

\* ------------------------------------------------------------------------
\* Streaming loads on a store from which another reducer of the module
\* deletes rows between the loads
\* ------------------------------------------------------------------------
DeleteTags ==
    {TagOf("map", <<>>, {"Start"}),
     TagOf("tileset", <<>>, {"Empty"}),
     TagOf("layer", <<>>, {"Empty"})}

DeleteEvents == IF nread < MaxDeleteEvents THEN NextEvents(DeleteTags, {}) ELSE {}

RemoveAt(table, i) == SubSeq(table, 1, i - 1) \o SubSeq(table, i + 1, Len(table))

\* a reducer other than the loads deletes one Map, Tileset or Layer row
DeleteRow ==
    /\ pc = "returned"
    /\ \/ \E i \in 1..Len(tiled_map) :
             /\ tiled_map' = RemoveAt(tiled_map, i)
             /\ UNCHANGED <<tiled_tileset, tiled_layer>>
       \/ \E i \in 1..Len(tiled_tileset) :
             /\ tiled_tileset' = RemoveAt(tiled_tileset, i)
             /\ UNCHANGED <<tiled_map, tiled_layer>>
       \/ \E i \in 1..Len(tiled_layer) :
             /\ tiled_layer' = RemoveAt(tiled_layer, i)
             /\ UNCHANGED <<tiled_map, tiled_tileset>>
    /\ UNCHANGED <<tiled_tile, tiled_object, tiled_property, pc, result, loads, nread,
                   locals, tree, tokenizer, client>>

DeleteMap == \E e \in DeleteEvents : MapTag(e)

DeleteTileset == \E e \in DeleteEvents : TilesetTag(e)

DeleteLayer == \E e \in DeleteEvents : LayerTag(e)

DeleteEndOther == \E e \in DeleteEvents : EndOther(e)

DeleteEof == \E e \in DeleteEvents : EofEvent(e)

NextDelete ==
    \/ BeginLoad
    \/ DeleteMap
    \/ DeleteTileset
    \/ DeleteLayer
    \/ DeleteEndOther
    \/ DeleteEof
    \/ DeleteRow

SpecDelete == Init /\ [][NextDelete]_vars

\* the keys of the table are 0..Len(table) but for one that is not the
\* highest: of the rows numbered by their count, one below the newest is gone
OneRowBelowHighestGone(table, key) ==
    \E k \in 0..(Len(table) - 1) :
        {table[i][key] : i \in 1..Len(table)} = (0..Len(table)) \ {k}

\* C33: once a row other than the one with the highest id is gone from a
\* table, the next id allocated for that kind, the row count, is the key of a
\* row still there: the insert is rejected and the load returns Err on that
\* step, leaving every row it wrote before in the store.
C33_Step ==
    pc = "loop" =>
        /\ (OneRowBelowHighestGone(tiled_layer, "layer_id") /\ IsTag(event', "layer"))
              => (pc' = "returned" /\ result'.tag = "Err" /\ db' = db)
        /\ (OneRowBelowHighestGone(tiled_tileset, "tileset_id") /\ IsTag(event', "tileset"))
              => (pc' = "returned" /\ result'.tag = "Err" /\ db' = db)
        /\ (OneRowBelowHighestGone(tiled_map, "map_id") /\ event'.kind = "Eof")
              => (pc' = "returned" /\ result'.tag = "Err" /\ db' = db)

LeftoverEvents == IF nread < MaxLeftoverEvents THEN NextEvents(DeleteTags, {}) ELSE {}

LeftoverMap == \E e \in LeftoverEvents : MapTag(e)

LeftoverTileset == \E e \in LeftoverEvents : TilesetTag(e)

LeftoverLayer == \E e \in LeftoverEvents : LayerTag(e)

LeftoverEndOther == \E e \in LeftoverEvents : EndOther(e)

LeftoverEof == \E e \in LeftoverEvents : EofEvent(e)

LeftoverError == \E e \in LeftoverEvents : XmlError(e)

NextLeftover ==
    \/ BeginLoad
    \/ LeftoverMap
    \/ LeftoverTileset
    \/ LeftoverLayer
    \/ LeftoverEndOther
    \/ LeftoverEof
    \/ LeftoverError

SpecLeftover == Init /\ [][NextLeftover]_vars

\* C34 (as claimed): when a streaming load has returned Ok, the Tileset and
\* Layer rows carrying the map_id of its Map row are the rows that load
\* wrote: as many Tileset rows as the load counted, and no row at all for a
\* load that read no tag; rows left by an earlier failed load are not among
\* them.
C34_ChildRowsWrittenByTheMapsLoad ==
    (pc = "returned" /\ result.tag = "Ok") =>
        /\ Cardinality({i \in 1..Len(tiled_tileset) : tiled_tileset[i].map_id = result.id})
               = tileset_counter
        /\ ~root_seen =>
               /\ \A i \in 1..Len(tiled_layer) : tiled_layer[i].map_id # result.id
               /\ \A i \in 1..Len(tiled_tileset) : tiled_tileset[i].map_id # result.id

\* ------------------------------------------------------------------------
\* The tree-based load of an infinite tile layer with chunks at negative
\* origins
\* ------------------------------------------------------------------------
\* chunk positions of tiles with a negative i32 coordinate, the last being
\* the chunk of the tile column -2^31
NegativeOrigins == {<<-1, 0>>, <<-1, -1>>, <<0, -2>>, <<-134217728, 3>>}

NegativeChunkLayer ==
    /\ pc = "tilesets"
    /\ \E o1, o2 \in NegativeOrigins :
           /\ o1 # o2
           /\ \E p1, p2 \in ChunkLocals : StoreLayer(ChunkLayerOf(o1, p1, o2, p2))

NextNegative ==
    \/ TreeBegin
    \/ NegativeChunkLayer
    \/ TreeFinish

SpecNegative == Init /\ [][NextNegative]_vars

\* the u32 u is v mod 2^32, for an i32 v: u itself when v is not negative,
\* and a value from 2^31 on, 2^32 above v, when it is
WrapsTo(u, v) ==
    IF v >= 0 THEN u.hi < 32768 /\ u.hi * 65536 + u.lo = v
    ELSE u.hi >= 32768 /\ (u.hi - 65536) * 65536 + u.lo = v

\* C35: a chunk at a negative origin is not rejected: the load goes on, and
\* each of its tiles is stored once, at x = (cx*16 + x_local) mod 2^32 and
\* y = (cy*16 + y_local) mod 2^32, a negative world coordinate becoming a
\* stored coordinate of 2^31 or more.
C35_NegativeOriginWraps ==
    /\ (node.kind = "Layer" /\ node.layer.tiles.infinite) => pc = "layers"
    /\ InfiniteLayerStored =>
           \A c \in 1..Len(node.layer.tiles.chunks) :
               LET chunk == node.layer.tiles.chunks[c]
               IN  \A p \in DOMAIN chunk.tiles :
                       Cardinality({i \in StoredTiles :
                                       /\ tiled_tile[i].gid = chunk.tiles[p].id
                                       /\ WrapsTo(tiled_tile[i].x, chunk.coords[1] * 16 + p[1])
                                       /\ WrapsTo(tiled_tile[i].y, chunk.coords[2] * 16 + p[2])})
                           = 1

\* the chunk at origin (-1,0) with a tile at local (15,15) and the chunk at
\* origin (-134217728,3) with a tile at local (0,0) were stored: rows at
\* (2^32 - 1, 15) and at (2^31, 48)
C35_Witness ==
    /\ InfiniteLayerStored
    /\ node.layer.tiles.chunks[1].coords = <<-1, 0>>
    /\ DOMAIN node.layer.tiles.chunks[1].tiles = {<<15, 15>>}
    /\ node.layer.tiles.chunks[2].coords = <<-134217728, 3>>
    /\ DOMAIN node.layer.tiles.chunks[2].tiles = {<<0, 0>>}
    /\ Len(tiled_tile) = 2
    /\ tiled_tile[1].x = U32(65535, 65535) /\ tiled_tile[1].y = U32(0, 15)
    /\ tiled_tile[2].x = U32(32768, 0) /\ tiled_tile[2].y = U32(0, 48)

\* ------------------------------------------------------------------------
\* The tree-based load of an object layer of two objects, of every shape
\* variant, with and without a user type
\* ------------------------------------------------------------------------
\* tiled::ObjectShape values, sizes in thousandths
ObjectShapes ==
    {[tag |-> "Rect", width |-> 0, height |-> 0],
     [tag |-> "Rect", width |-> 5000, height |-> 2500],
     [tag |-> "Ellipse", width |-> 3000, height |-> 1500],
     [tag |-> "Point", width |-> 0, height |-> 0],
     [tag |-> "Polygon", width |-> 7000, height |-> 7000],
     [tag |-> "Polyline", width |-> 4000, height |-> 0],
     [tag |-> "Text", width |-> 8000, height |-> 1000]}

UserTypes == {<<>>, <<"n", "p", "c">>}

ObjectOf(shape, user_type) ==
    [name |-> <<"o">>, user_type |-> user_type, x |-> 8000, y |-> 16000, rotation |-> 0,
     visible |-> TRUE, shape |-> shape, properties |-> <<>>]

ObjectsLayer ==
    /\ pc = "tilesets"
    /\ \E s1, s2 \in ObjectShapes :
           \E t \in UserTypes :
               StoreLayer(TreeLayerOf("things", "Objects", NoTiles,
                                      <<ObjectOf(s1, t), ObjectOf(s2, <<>>)>>, <<>>))

NextObjects ==
    \/ TreeBegin
    \/ ObjectsLayer
    \/ TreeFinish

SpecObjects == Init /\ [][NextObjects]_vars

ShapeName ==
    [Rect |-> "rectangle", Ellipse |-> "ellipse", Point |-> "point",
     Polygon |-> "polygon", Polyline |-> "polyline", Text |-> "text"]

SizedShapes == {"Rect", "Ellipse", "Text"}

\* the Object row written for the o-th object of the layer just stored
StoredObject(o) == tiled_object[Len(tiled_object) - Len(node.layer.objects) + o]

\* C37: each object the tree-based load stores has as shape the name of its
\* shape variant (rectangle, ellipse, point, polygon, polyline, text), as
\* width and height the shape's own for a rectangle, an ellipse and a text
\* and 0 for a point, a polygon and a polyline, and as obj_type the object's
\* user type as it is, empty when unset.
C37_ObjectShapeSizeAndType ==
    (LayerStored /\ node.layer.kind = "Objects") =>
        \A o \in 1..Len(node.layer.objects) :
            LET object == node.layer.objects[o]
                sized == object.shape.tag \in SizedShapes
            IN  /\ StoredObject(o).shape = ShapeName[object.shape.tag]
                /\ StoredObject(o).width = (IF sized THEN object.shape.width ELSE 0)
                /\ StoredObject(o).height = (IF sized THEN object.shape.height ELSE 0)
                /\ StoredObject(o).obj_type = object.user_type
                /\ StoredObject(o).layer_id = Last(tiled_layer).layer_id

\* an ellipse of 3 by 1.5 with user type "npc" and a polygon without user
\* type were stored: the ellipse with its size, the polygon with size 0
C37_Witness ==
    /\ LayerStored
    /\ node.layer.kind = "Objects"
    /\ Len(tiled_object) = 2
    /\ tiled_object[1].shape = "ellipse"
    /\ tiled_object[1].width = 3000 /\ tiled_object[1].height = 1500
    /\ tiled_object[1].obj_type = <<"n", "p", "c">>
    /\ tiled_object[2].shape = "polygon"
    /\ tiled_object[2].width = 0 /\ tiled_object[2].height = 0
    /\ tiled_object[2].obj_type = <<>>
    /\ node.layer.objects[2].shape.width = 7000

\* ---------------------------------------------------------------------------
\* The example client (examples/simple_game/bevy_client): the systems of the
\* Update schedule that read or write the ConnectionState resource.  Each
\* system runs once per frame; on_connected and check_subscription_ready are
\* added without an order, and the two loader chains are not ordered against
\* them or against each other, so a frame runs the four in any order.  All
\* four take ResMut<ConnectionState>, so no two of them overlap.
\* ---------------------------------------------------------------------------

Systems == {"on_connected", "check_subscription_ready",
            "load_existing_data", "load_existing_objects"}

\* the schedule runs system s, which has not run in this frame yet
RunSystem(s) ==
    /\ s \notin ran
    /\ ran' = ran \cup {s}
    /\ UNCHANGED server

\* the connection plugin writes a connected event (again after a reconnect)
ConnectedEvent ==
    /\ pending < MaxPending
    /\ pending' = pending + 1
    /\ UNCHANGED <<server, connected, data_loaded, objects_loaded, subscription_ready,
                   frames_since_connected, ran, ready_runs, data_bodies, object_bodies>>

\* for _ in events.read() { ...; state.connected = true;
\*                          state.frames_since_connected = 0; }
on_connected ==
    /\ RunSystem("on_connected")
    /\ pending' = 0
    /\ IF pending > 0
       THEN /\ connected' = TRUE
            /\ frames_since_connected' = 0
            /\ ready_runs' = 0
       ELSE UNCHANGED <<connected, frames_since_connected, ready_runs>>
    /\ UNCHANGED <<data_loaded, objects_loaded, subscription_ready, data_bodies,
                   object_bodies>>

\* check_subscription_ready that counts on every run with connected set
check_subscription_ready_EveryRun ==
    /\ RunSystem("check_subscription_ready")
    /\ IF connected
       THEN /\ frames_since_connected' =
                   IF frames_since_connected < MaxRuns
                   THEN frames_since_connected + 1 ELSE frames_since_connected
            /\ subscription_ready' =
                   (subscription_ready \/ frames_since_connected' >= 10)
            /\ ready_runs' = IF ready_runs < MaxRuns THEN ready_runs + 1 ELSE ready_runs
       ELSE UNCHANGED <<frames_since_connected, subscription_ready, ready_runs>>
    /\ UNCHANGED <<connected, data_loaded, objects_loaded, pending, data_bodies,
                   object_bodies>>

\* if state.connected && !state.subscription_ready {
\*     state.frames_since_connected += 1;
\*     if state.frames_since_connected >= 10 { state.subscription_ready = true; } }
check_subscription_ready ==
    /\ RunSystem("check_subscription_ready")
    /\ IF connected /\ ~subscription_ready
       THEN /\ frames_since_connected' = frames_since_connected + 1
            /\ subscription_ready' = (frames_since_connected' >= 10)
       ELSE UNCHANGED <<frames_since_connected, subscription_ready>>
    /\ ready_runs' = IF connected /\ ready_runs < MaxRuns
                     THEN ready_runs + 1 ELSE ready_runs
    /\ UNCHANGED <<connected, data_loaded, objects_loaded, pending, data_bodies,
                   object_bodies>>

\* load_existing_data that returns early only while the subscription is not ready
load_existing_data_Reloading ==
    /\ RunSystem("load_existing_data")
    /\ IF ~subscription_ready
       THEN UNCHANGED <<data_loaded, data_bodies>>
       ELSE /\ data_bodies' = data_bodies + 1
            /\ data_loaded' = TRUE
    /\ UNCHANGED <<connected, objects_loaded, subscription_ready, frames_since_connected,
                   pending, ready_runs, object_bodies>>

\* if !state.subscription_ready || state.data_loaded { return; }
\* ... spawn the maps, layers and tiles ...; state.data_loaded = true;
load_existing_data ==
    /\ RunSystem("load_existing_data")
    /\ IF ~subscription_ready \/ data_loaded
       THEN UNCHANGED <<data_loaded, data_bodies>>
       ELSE /\ data_bodies' = data_bodies + 1
            /\ data_loaded' = TRUE
    /\ UNCHANGED <<connected, objects_loaded, subscription_ready, frames_since_connected,
                   pending, ready_runs, object_bodies>>

\* if !state.data_loaded || state.objects_loaded { return; }
\* ... spawn the objects ...; state.objects_loaded = true;
load_existing_objects ==
    /\ RunSystem("load_existing_objects")
    /\ IF ~data_loaded \/ objects_loaded
       THEN UNCHANGED <<objects_loaded, object_bodies>>
       ELSE /\ object_bodies' = object_bodies + 1
            /\ objects_loaded' = TRUE
    /\ UNCHANGED <<connected, data_loaded, subscription_ready, frames_since_connected,
                   pending, ready_runs, data_bodies>>

\* every system of the frame has run: the next frame begins
EndFrame ==
    /\ ran = Systems
    /\ ran' = {}
    /\ UNCHANGED <<server, connected, data_loaded, objects_loaded, subscription_ready,
                   frames_since_connected, pending, ready_runs, data_bodies,
                   object_bodies>>

NextClient ==
    \/ ConnectedEvent
    \/ on_connected
    \/ check_subscription_ready
    \/ load_existing_data
    \/ load_existing_objects
    \/ EndFrame

SpecClient == Init /\ [][NextClient]_vars

\* the system that a step runs
Runs(s) == s \in ran' /\ s \notin ran

C38_Step ==
    /\ subscription_ready' => connected'
    /\ subscription_ready' /= subscription_ready
          => /\ subscription_ready'
             /\ Runs("check_subscription_ready")
             /\ connected
             /\ ready_runs' = 10
    /\ (Runs("check_subscription_ready") /\ connected /\ ready_runs' = 10)
          => subscription_ready'
    /\ subscription_ready
          => /\ subscription_ready'
             /\ frames_since_connected' <= frames_since_connected

\* C38: subscription_ready is false until a connected event has been handled;
\* it becomes true exactly on the 10th run of check_subscription_ready with
\* connected set since frames_since_connected was last reset; once true it
\* stays true and frames_since_connected is not incremented any more.
C38_ReadyOnTenthRunAndForGood == [][C38_Step]_vars

\* the subscription is ready, a later connected event reset the counter, and
\* three more runs of check_subscription_ready left it at 0
C38_Witness ==
    /\ subscription_ready
    /\ ready_runs = 3
    /\ frames_since_connected = 0

Flags == <<connected, subscription_ready, data_loaded, objects_loaded>>

C39_Step ==
    /\ data_bodies' /= data_bodies => subscription_ready /\ Runs("load_existing_data")
    /\ object_bodies' /= object_bodies => data_loaded /\ Runs("load_existing_objects")
    /\ data_bodies' <= 1 /\ object_bodies' <= 1
    /\ data_loaded' = (data_bodies' = 1)
    /\ objects_loaded' = (object_bodies' = 1)
    /\ objects_loaded' => data_loaded'
    /\ data_loaded' => subscription_ready'
    /\ subscription_ready' => connected'
    /\ \A i \in 1..4 : Flags[i] => Flags[i]'
    /\ Cardinality({i \in 1..4 : Flags[i]' /= Flags[i]}) <= 1

\* C39: the body of load_existing_data runs at most once and only with
\* subscription_ready set, the body of load_existing_objects at most once and
\* only with data_loaded set; the flags become true one at a time in the order
\* connected, subscription_ready, data_loaded, objects_loaded, and no frame or
\* connected event resets one.
C39_LoadersRunOnceAndFlagsInOrder == [][C39_Step]_vars

\* everything is loaded, each body ran once, and a repeated connected event
\* has been handled since and another one is waiting
C39_Witness ==
    /\ objects_loaded
    /\ data_bodies = 1 /\ object_bodies = 1
    /\ frames_since_connected = 0
    /\ ready_runs = 2
    /\ pending = 1

====
